---- MODULE Spec2Model ----
(***************************************************************************)
(* Workbook accessor (services/google_sheets.py) and the dashboard route   *)
(* handlers (app.py) of dashboard_app_from_excel.                          *)
(*                                                                         *)
(* Text is a sequence of one-character strings, so that str.lower() is     *)
(* computed character by character.  Python's None and "" are both the     *)
(* empty sequence where the code only tests truthiness (a sheet name);     *)
(* an optional number is <<>> (None) or <<n>>.                             *)
(***************************************************************************)
EXTENDS Integers, Sequences, FiniteSets, TLC

VARIABLES
    file,              \* the workbook at LOCAL_EXCEL_FILE: exists, mtime, sheets
    now,               \* time.time()
    SHEET_CACHE_TTL,   \* config.SHEET_CACHE_TTL, read from the environment at import
    _excel_cache,      \* google_sheets._excel_cache: sheet title -> table
    _excel_timestamp,  \* google_sheets._excel_timestamp
    _excel_mtime,      \* google_sheets._excel_mtime: <<>> is None
    book,              \* the lru_cache(maxsize=1) slot of _load_workbook: <<>> or <<handle>>
    loadedAt,          \* time of the last pd.ExcelFile open: <<>> before the first
    last,              \* the most recent sheet_to_df call made directly, and what it returned;
                       \* SpecLoader: the most recent get_sheet_df call
    seen,              \* SpecSeen only: the file's mtime as that call saw it;
                       \* SpecLoader: the arguments get_sheet_df has returned a table for
    steady,            \* <<first call>> while every call since process start repeats it
                       \* on an untouched file within the TTL of the first load;
                       \* SpecViews: <<the page each route gave first>> since the file
                       \* was last touched
    resp,              \* the most recent route handler response
    thr,               \* SpecConc only: each request thread's position inside sheet_to_df
    arg,               \* the input of the helper function applied (specifications of
                       \* the pure helpers of app.py)
    ret,               \* <<>> or <<what the helper returned>>
    _cache             \* DataLoader._cache of the one DataLoader: name -> table

vars == <<file, now, SHEET_CACHE_TTL, _excel_cache, _excel_timestamp,
          _excel_mtime, book, loadedAt, last, seen, steady, resp, thr, arg, ret,
          _cache>>

----------------------------------------------------------------------------
(* Bounds *)

MaxMtime == 2      \* modification times (and so file contents) are 1..MaxMtime
MaxTicks == 2      \* the clock advances at most MaxTicks seconds
MaxIndex == 2      \* the largest worksheet_index passed
Epoch == 5         \* time.time() at process start (seconds; far above any TTL)
TTLValues == {-1, 0, 1}   \* values of SHEET_CACHE_TTL tried

----------------------------------------------------------------------------
(* Text *)

None == <<>>

S_okr == <<"o", "k", "r">>
S_OKR == <<"O", "K", "R">>
S_2026_OKR == <<"2", "0", "2", "6", " ", "O", "K", "R">>
S_swot == <<"s", "w", "o", "t">>
S_Swot == <<"S", "w", "o", "t">>
S_missing_name == <<"m", "i", "s", "s", "i", "n", "g", "_", "n", "a", "m", "e">>
S_Full_price_value_map == <<"F", "u", "l", "l", " ", "p", "r", "i", "c", "e", " ", "v", "a", "l", "u", "e", "_", "m", "a", "p">>
S_promo_price_value_map == <<"p", "r", "o", "m", "o", " ", "p", "r", "i", "c", "e", " ", "v", "a", "l", "u", "e", "_", "m", "a", "p">>

LowerChar(c) ==
    CASE c = "A" -> "a" [] c = "B" -> "b" [] c = "C" -> "c" [] c = "D" -> "d"
      [] c = "E" -> "e" [] c = "F" -> "f" [] c = "G" -> "g" [] c = "H" -> "h"
      [] c = "I" -> "i" [] c = "J" -> "j" [] c = "K" -> "k" [] c = "L" -> "l"
      [] c = "M" -> "m" [] c = "N" -> "n" [] c = "O" -> "o" [] c = "P" -> "p"
      [] c = "Q" -> "q" [] c = "R" -> "r" [] c = "S" -> "s" [] c = "T" -> "t"
      [] c = "U" -> "u" [] c = "V" -> "v" [] c = "W" -> "w" [] c = "X" -> "x"
      [] c = "Y" -> "y" [] c = "Z" -> "z" [] OTHER -> c

Lower(s) == [i \in DOMAIN s |-> LowerChar(s[i])]

Range(seq) == {seq[i] : i \in DOMAIN seq}

\* ALIAS_MAP: the set of <<logical name, actual sheet title>> entries
ALIAS_MAP ==
    { <<<<"v", "a", "l", "u", "e", "_", "m", "a", "p">>,
        <<"F", "u", "l", "l", " ", "p", "r", "i", "c", "e", " ", "v", "a", "l", "u", "e", "_", "m", "a", "p">>>>,
      <<<<"v", "a", "l", "u", "e", "_", "m", "a", "p", "_", "p", "r", "o", "m", "o">>,
        <<"p", "r", "o", "m", "o", " ", "p", "r", "i", "c", "e", " ", "v", "a", "l", "u", "e", "_", "m", "a", "p">>>>,
      <<<<"t", "o", "p", "_", "p", "r", "o", "d", "u", "c", "t">>,
        <<"t", "o", "p", "_", "p", "r", "o", "d", "u", "c", "t", "_", "f", "u", "l", "l", "_", "p", "r", "i", "c", "e">>>>,
      <<<<"t", "o", "p", "_", "p", "r", "o", "d", "u", "c", "t", "_", "p", "r", "o", "m", "o">>,
        <<"t", "o", "p", "_", "p", "r", "o", "d", "u", "c", "t", "_", "p", "r", "o", "m", "o">>>>,
      <<<<"o", "k", "r">>,
        <<"2", "0", "2", "6", " ", "O", "K", "R">>>>,
      <<<<"2", "0", "2", "5", " ", "o", "k", "r">>,
        <<"2", "0", "2", "5", " ", "O", "K", "R">>>>,
      <<<<"p", "r", "o", "f", "i", "t", "_", "n", "_", "l", "o", "s", "s">>,
        <<"P", "&", "L">>>>,
      <<<<"p", "r", "o", "f", "i", "t", " ", "p", "e", "r", " ", "x">>,
        <<"P", "r", "o", "f", "i", "t", " ", "p", "e", "r", " ", "X">>>>,
      <<<<"c", "o", "s", "t", " ", "p", "e", "r", " ", "x">>,
        <<"C", "o", "s", "t", " ", "p", "e", "r", " ", "X">>>>,
      <<<<"c", "o", "r", "e", " ", "-", "n", "e", "w", " ", "s", "e", "g", "m", "e", "n", "t", "s">>,
        <<"C", "o", "r", "e", " ", "-", "N", "e", "w", " ", "s", "e", "g", "m", "e", "n", "t", "s">>>> }

AliasGet(k, default) ==
    IF \E e \in ALIAS_MAP : e[1] = k
    THEN (CHOOSE e \in ALIAS_MAP : e[1] = k)[2]
    ELSE default

----------------------------------------------------------------------------
(* Tables *)

\* pandas' marker of an empty cell
NaN == <<"NaN">>

\* pd.DataFrame(): the empty table.  edited: the object was changed in place
\* after it was parsed; columns: the column names; cells: the cells of its row
EmptyDF == [sheet |-> None, ver |-> 0, edited |-> FALSE, columns |-> <<>>, cells |-> <<>>]

\* The header row of a sheet in the file content with modification time ver:
\* headers come as typed into the workbook
SheetColumns(ver) ==
    IF ver % 2 = 1
    THEN <<<<" ", "Q", "t", "y">>, <<"N", "o">>>>
    ELSE <<<<"N", "o", "\t">>, <<"Q", "1", " ", " ", "S", "a", "l", "e">>>>

\* The data row under it, as pandas reads it: an empty cell is NaN
SheetCells(ver) ==
    IF ver % 2 = 1 THEN <<NaN, <<"A">>>> ELSE <<<<"0">>, NaN>>

\* book.parse(sheet_name): the rows of that sheet in the file content the handle
\* was opened on
Parse(handle, sheet_name) ==
    [sheet |-> sheet_name, ver |-> handle.ver, edited |-> FALSE,
     columns |-> SheetColumns(handle.ver), cells |-> SheetCells(handle.ver)]

\* DataFrame.fillna("") leaving the empty cells as they are
fillna_nothing(df) == df

\* DataFrame.fillna(""): every NaN cell becomes ""
fillna(df) == [df EXCEPT !.cells = [i \in DOMAIN df.cells |->
                                       IF df.cells[i] = NaN THEN <<>> ELSE df.cells[i]]]

EmptyCache == [t \in {} |-> EmptyDF]

CachePut(cache, k, v) == [t \in (DOMAIN cache) \cup {k} |-> IF t = k THEN v ELSE cache[t]]

\* The workbooks (ordered sheet titles) the file may hold
Workbooks ==
    { <<S_swot, S_2026_OKR>>,
      <<S_OKR, S_Swot>> }

\* The calls made: <<sheet_name_or_index, worksheet_index>>.  None is a call
\* without a name; a named call leaves worksheet_index at its default 0, or
\* passes one as tests/test_google_sheets.py does
Requests ==
    {<<None, 0>>, <<None, MaxIndex>>}
        \cup {<<S_okr, 0>>, <<S_swot, 0>>, <<S_missing_name, 0>>}
        \cup {<<S_missing_name, 1>>}

----------------------------------------------------------------------------
(* services/google_sheets.py *)

\* The module globals as one record
Globals == [cache |-> _excel_cache, ts |-> _excel_timestamp, mtime |-> _excel_mtime,
            book |-> book, loadedAt |-> loadedAt]

\* _should_reload with the TTL comparison never firing
_should_reload_no_expiry(g, f, t, ttl) ==
    IF ~f.exists
    THEN [raise |-> TRUE, reload |-> FALSE, g |-> g]
    ELSE IF g.mtime # <<f.mtime>>
    THEN [raise |-> FALSE, reload |-> TRUE, g |-> [g EXCEPT !.mtime = <<f.mtime>>]]
    ELSE [raise |-> FALSE, reload |-> FALSE, g |-> g]

\* _should_reload with `SHEET_CACHE_TTL < 0` for `SHEET_CACHE_TTL <= 0`
_should_reload_ttl_strict(g, f, t, ttl) ==
    IF ~f.exists
    THEN [raise |-> TRUE, reload |-> FALSE, g |-> g]
    ELSE IF g.mtime # <<f.mtime>>
    THEN [raise |-> FALSE, reload |-> TRUE, g |-> [g EXCEPT !.mtime = <<f.mtime>>]]
    ELSE IF ttl < 0
    THEN [raise |-> FALSE, reload |-> FALSE, g |-> g]
    ELSE IF t - g.ts > ttl
    THEN [raise |-> FALSE, reload |-> TRUE, g |-> [g EXCEPT !.ts = t]]
    ELSE [raise |-> FALSE, reload |-> FALSE, g |-> g]

\* _should_reload answering False for a missing file instead of raising
_should_reload_no_raise(g, f, t, ttl) ==
    IF ~f.exists
    THEN [raise |-> FALSE, reload |-> FALSE, g |-> g]
    ELSE IF g.mtime # <<f.mtime>>
    THEN [raise |-> FALSE, reload |-> TRUE, g |-> [g EXCEPT !.mtime = <<f.mtime>>]]
    ELSE IF ttl <= 0
    THEN [raise |-> FALSE, reload |-> FALSE, g |-> g]
    ELSE IF t - g.ts > ttl
    THEN [raise |-> FALSE, reload |-> TRUE, g |-> [g EXCEPT !.ts = t]]
    ELSE [raise |-> FALSE, reload |-> FALSE, g |-> g]

\* _should_reload(): raise is FileNotFoundError; g is the globals afterwards
_should_reload(g, f, t, ttl) ==
    IF ~f.exists
    THEN [raise |-> TRUE, reload |-> FALSE, g |-> g]
    ELSE IF g.mtime # <<f.mtime>>
    THEN [raise |-> FALSE, reload |-> TRUE, g |-> [g EXCEPT !.mtime = <<f.mtime>>]]
    ELSE IF ttl <= 0
    THEN [raise |-> FALSE, reload |-> FALSE, g |-> g]
    ELSE IF t - g.ts > ttl
    THEN [raise |-> FALSE, reload |-> TRUE, g |-> [g EXCEPT !.ts = t]]
    ELSE [raise |-> FALSE, reload |-> FALSE, g |-> g]

\* _load_workbook() under lru_cache(maxsize=1): the cached handle, or
\* pd.ExcelFile(LOCAL_EXCEL_FILE), which raises FileNotFoundError on a missing file
_load_workbook(g, f, t) ==
    IF g.book # <<>>
    THEN [raise |-> FALSE, g |-> g]
    ELSE IF ~f.exists
    THEN [raise |-> TRUE, g |-> g]
    ELSE [raise |-> FALSE,
          g |-> [g EXCEPT !.book = <<[ver |-> f.mtime, sheet_names |-> f.sheets]>>,
                          !.loadedAt = <<t>>]]

\* The body of the if without `_excel_cache = {}`
ClearAndLoad_keep(g, f, t) ==
    LET lw == _load_workbook([g EXCEPT !.book = <<>>], f, t)
    IN  [raise |-> lw.raise, reload |-> TRUE, g |-> lw.g]

\* The body of the if in _refresh_workbook_if_needed
ClearAndLoad(g, f, t) ==
    LET lw == _load_workbook([g EXCEPT !.cache = EmptyCache, !.book = <<>>], f, t)
    IN  [raise |-> lw.raise, reload |-> TRUE, g |-> lw.g]

\* _refresh_workbook_if_needed(): `not _excel_cache or _should_reload()`
_refresh_workbook_if_needed(g, f, t, ttl) ==
    IF DOMAIN g.cache = {}
    THEN ClearAndLoad(g, f, t)
    ELSE LET sr == _should_reload(g, f, t, ttl)
         IN  IF sr.raise THEN [raise |-> TRUE, reload |-> FALSE, g |-> sr.g]
             ELSE IF sr.reload THEN ClearAndLoad(sr.g, f, t)
             ELSE [raise |-> FALSE, reload |-> FALSE, g |-> sr.g]

\* lowered = {name.lower(): name for name in book.sheet_names}; lowered.get(k)
LoweredGet(sheet_names, k) ==
    LET hits == {i \in DOMAIN sheet_names : Lower(sheet_names[i]) = k}
    IN  IF hits = {} THEN None
        ELSE sheet_names[CHOOSE i \in hits : \A j \in hits : j <= i]

\* _normalize_sheet_name(book, key)
_normalize_sheet_name(sheet_names, key) ==
    IF key \in Range(sheet_names) THEN key
    ELSE LET alias_key == AliasGet(Lower(key), key)
         IN  IF alias_key \in Range(sheet_names) THEN alias_key
             ELSE LoweredGet(sheet_names, Lower(alias_key))

\* PickSheet falling back to worksheet_index when the name does not resolve
PickSheet_index_fallback(sheet_names, sheet_name_or_index, worksheet_index) ==
    IF sheet_name_or_index # None
          /\ _normalize_sheet_name(sheet_names, sheet_name_or_index) # None
    THEN _normalize_sheet_name(sheet_names, sheet_name_or_index)
    ELSE IF worksheet_index + 1 \in DOMAIN sheet_names
         THEN sheet_names[worksheet_index + 1]
         ELSE None

\* The sheet the call settles on: by name, else by position
PickSheet(sheet_names, sheet_name_or_index, worksheet_index) ==
    IF sheet_name_or_index # None
    THEN _normalize_sheet_name(sheet_names, sheet_name_or_index)
    ELSE IF worksheet_index + 1 \in DOMAIN sheet_names
         THEN sheet_names[worksheet_index + 1]
         ELSE None

\* `return _excel_cache[sheet_name].copy()`: the caller gets an object of its own
ReturnFrame(cache, sheet_name) == [df |-> cache[sheet_name], same_object |-> FALSE]

\* sheet_to_df(sheet_name_or_index, worksheet_index): outcome, returned table
\* (same_object: it is the object in the cache) and the globals afterwards
SheetToDf(g, f, t, ttl, sheet_name_or_index, worksheet_index) ==
    LET rf == _refresh_workbook_if_needed(g, f, t, ttl)
        lw == _load_workbook(rf.g, f, t)
        raised == rf.raise \/ lw.raise
        g1 == IF rf.raise THEN rf.g ELSE lw.g
        sheet_name == IF raised THEN None
                      ELSE PickSheet(g1.book[1].sheet_names, sheet_name_or_index, worksheet_index)
        hit == sheet_name # None /\ sheet_name \in DOMAIN g1.cache
        g2 == IF sheet_name = None \/ hit THEN g1
              ELSE [g1 EXCEPT !.cache = CachePut(g1.cache, sheet_name,
                                                   fillna(Parse(g1.book[1], sheet_name)))]
    IN  [outcome |-> IF raised THEN "FileNotFoundError" ELSE "ok",
         result |-> IF sheet_name = None THEN EmptyDF
                    ELSE ReturnFrame(g2.cache, sheet_name).df,
         same_object |-> sheet_name # None /\ ReturnFrame(g2.cache, sheet_name).same_object,
         sheet |-> sheet_name,
         reloaded |-> rf.reload,
         hit |-> hit,
         g |-> g2]

----------------------------------------------------------------------------
(* State machine *)

\* last before any call.  The fields after hit describe the state the call found:
\* dropped: the cache held a sheet other than the one asked for; expired: more
\* than SHEET_CACHE_TTL seconds had passed since the last workbook open; warm:
\* the cache was not empty and _excel_mtime was the file's modification time;
\* fexists: the file existed
NoCall == [name |-> None, index |-> 0, outcome |-> "none", result |-> EmptyDF,
           reloaded |-> FALSE, hit |-> FALSE, dropped |-> FALSE,
           expired |-> FALSE, warm |-> FALSE, fexists |-> FALSE]

NotSeen == [mtime |-> 0]

NoResp == [route |-> "none", status |-> "none", empty |-> TRUE]

Init ==
    /\ _cache = <<>>
    /\ file \in [exists : BOOLEAN, mtime : 1..MaxMtime, sheets : Workbooks]
    /\ now = Epoch
    /\ SHEET_CACHE_TTL \in TTLValues
    /\ _excel_cache = EmptyCache
    /\ _excel_timestamp = 0
    /\ _excel_mtime = None
    /\ book = <<>>
    /\ loadedAt = <<>>
    /\ last = NoCall
    /\ seen = NotSeen
    /\ steady = <<>>
    /\ resp = NoResp
    /\ thr = <<>>
    /\ arg = <<>>
    /\ ret = <<>>

SetGlobals(g) ==
    /\ _excel_cache' = g.cache
    /\ _excel_timestamp' = g.ts
    /\ _excel_mtime' = g.mtime
    /\ book' = g.book
    /\ loadedAt' = g.loadedAt

\* One request calls sheet_to_df(name, worksheet_index=index)
Access(name, index) ==
    \E r \in {SheetToDf(Globals, file, now, SHEET_CACHE_TTL, name, index)} :
        /\ SetGlobals(r.g)
        /\ last' = [name |-> name, index |-> index,
                    outcome |-> r.outcome, result |-> r.result,
                    reloaded |-> r.reloaded, hit |-> r.hit,
                    dropped |-> (DOMAIN _excel_cache) \ {r.sheet} # {},
                    expired |-> loadedAt # <<>> /\ now - loadedAt[1] > SHEET_CACHE_TTL,
                    warm |-> DOMAIN _excel_cache # {} /\ file.exists
                             /\ _excel_mtime = <<file.mtime>>,
                    fexists |-> file.exists]
        /\ steady' = IF r.outcome # "ok" \/ r.sheet = None THEN <<>>
                      ELSE IF last = NoCall
                      THEN <<[name |-> name, index |-> index, result |-> r.result,
                              at |-> now, again |-> FALSE]>>
                      ELSE IF /\ steady # <<>>
                              /\ steady[1].name = name /\ steady[1].index = index
                              /\ now - steady[1].at <= SHEET_CACHE_TTL
                      THEN <<[steady[1] EXCEPT !.again = TRUE]>>
                      ELSE <<>>
        /\ UNCHANGED <<_cache, thr, arg, ret, file, now, SHEET_CACHE_TTL, resp>>

sheet_to_df(name, index) == Access(name, index) /\ UNCHANGED seen

Call ==
    \E rq \in Requests : sheet_to_df(rq[1], rq[2])

\* The workbook file is replaced by another one.  A file's content is identified
\* by its modification time: a file put back with an earlier modification time
\* carries the content it had then
FileChange ==
    /\ file.exists
    /\ \E m \in (1..MaxMtime) \ {file.mtime} : file' = [file EXCEPT !.mtime = m]
    /\ steady' = <<>>
    /\ UNCHANGED <<_cache, thr, arg, ret, now, SHEET_CACHE_TTL, _excel_cache, _excel_timestamp, _excel_mtime,
                   book, loadedAt, last, seen, resp>>

\* The workbook file is removed or put back
FileToggle ==
    /\ file' = [file EXCEPT !.exists = ~file.exists]
    /\ steady' = <<>>
    /\ UNCHANGED <<_cache, thr, arg, ret, now, SHEET_CACHE_TTL, _excel_cache, _excel_timestamp, _excel_mtime,
                   book, loadedAt, last, seen, resp>>

Tick ==
    /\ now < Epoch + MaxTicks
    /\ now' = now + 1
    /\ UNCHANGED <<_cache, thr, arg, ret, file, SHEET_CACHE_TTL, _excel_cache, _excel_timestamp, _excel_mtime,
                   book, loadedAt, last, seen, steady, resp>>

Next == Call \/ FileChange \/ FileToggle \/ Tick

Spec == Init /\ [][Next]_vars

\* The same machine, each call also noting the file it saw
sheet_to_df_seen(name, index) ==
    /\ Access(name, index)
    /\ seen' = [mtime |-> file.mtime]

CallSeen ==
    \E rq \in Requests : sheet_to_df_seen(rq[1], rq[2])

NextSeen == CallSeen \/ FileChange \/ FileToggle \/ Tick

SpecSeen == Init /\ [][NextSeen]_vars

\* Name resolution alone: named calls on each of the workbooks ResolveWorkbooks
ResolveWorkbooks ==
    { <<S_swot, S_2026_OKR>>,
      <<S_OKR, S_Swot>>,
      <<S_okr, S_2026_OKR>>,
      <<S_2026_OKR, S_OKR>>,
      <<S_Swot>> }

ResolveNames == {S_okr, S_OKR, S_2026_OKR, S_swot, S_Swot, S_missing_name}

InitResolve ==
    /\ _cache = <<>>
    /\ file \in [exists : {TRUE}, mtime : {1}, sheets : ResolveWorkbooks]
    /\ now = Epoch
    /\ SHEET_CACHE_TTL \in TTLValues
    /\ _excel_cache = EmptyCache
    /\ _excel_timestamp = 0
    /\ _excel_mtime = None
    /\ book = <<>>
    /\ loadedAt = <<>>
    /\ last = NoCall
    /\ seen = NotSeen
    /\ steady = <<>>
    /\ resp = NoResp
    /\ thr = <<>>
    /\ arg = <<>>
    /\ ret = <<>>

CallNamed ==
    \E name \in ResolveNames : sheet_to_df(name, 0)

NextResolve == CallNamed

SpecResolve == InitResolve /\ [][NextResolve]_vars

----------------------------------------------------------------------------
(* Properties of the workbook accessor *)

Called == last.outcome # "none"

\* The titles a name is matched against: its own text and its alias target
AliasTargets(name) == {e[2] : e \in {a \in ALIAS_MAP : a[1] = Lower(name)}}

\* name matches no title exactly, through ALIAS_MAP or case-insensitively
MatchesNone(sheet_names, name) ==
    \A i \in DOMAIN sheet_names :
        /\ Lower(sheet_names[i]) # Lower(name)
        /\ \A a \in AliasTargets(name) : Lower(sheet_names[i]) # Lower(a)

DocumentedResolution(sheet_names, name) ==
    IF name \in Range(sheet_names) THEN name
    ELSE IF \E e \in ALIAS_MAP : e[1] = Lower(name) /\ e[2] \in Range(sheet_names)
    THEN (CHOOSE e \in ALIAS_MAP : e[1] = Lower(name))[2]
    ELSE IF \E i \in DOMAIN sheet_names : Lower(sheet_names[i]) = Lower(name)
    THEN sheet_names[CHOOSE i \in DOMAIN sheet_names : Lower(sheet_names[i]) = Lower(name)]
    ELSE None

\* C2: a named request resolves to the exact title, else the alias target, else
\* the title equal to the requested name case-insensitively, else nothing.
C2_ResolutionOrder ==
    (Called /\ last.outcome = "ok" /\ last.name # None)
        => last.result.sheet = DocumentedResolution(file.sheets, last.name)

\* The same request as the call before, which got a sheet
Repeats(name, index) ==
    /\ Called /\ last.outcome = "ok" /\ last.result # EmptyDF
    /\ last.name = name /\ last.index = index

\* C3: when the file's modification time and content change between two
\* sequential accesses of the same sheet, the second access returns the new
\* content.
C3_MtimeChangeRefreshes ==
    [][\A rq \in Requests :
          (/\ sheet_to_df_seen(rq[1], rq[2])
           /\ Repeats(rq[1], rq[2])
           /\ file.exists
           /\ file.mtime # seen.mtime)
          => (last'.outcome = "ok" /\ last'.result.ver = file.mtime)]_vars

\* C4: from process start, repeated accesses of one sheet on an untouched file
\* within the TTL (> 0) of the first load are served from the cache of the
\* first access: identical content, no cache clear, the workbook opened once.
C4_NoReloadWithinTTL ==
    (steady # <<>> /\ steady[1].again /\ SHEET_CACHE_TTL > 0)
        => (/\ ~last.reloaded
            /\ last.hit
            /\ last.result = steady[1].result
            /\ loadedAt = <<steady[1].at>>)

\* C5: with TTL > 0, an access made more than TTL seconds after the last load
\* clears the whole cache and reopens the workbook; afterwards the cache holds
\* at most the sheet just asked for.
C5_ExpiryClearsWholesale ==
    (Called /\ last.fexists /\ SHEET_CACHE_TTL > 0 /\ last.expired)
        => (/\ last.outcome = "ok"
            /\ last.reloaded
            /\ ~last.hit
            /\ DOMAIN _excel_cache \subseteq {last.result.sheet})

\* C5 witness: the TTL branch fired on a cache holding another sheet
C5_Witness ==
    /\ Called /\ last.fexists /\ SHEET_CACHE_TTL > 0 /\ last.expired
    /\ last.warm /\ last.dropped /\ last.reloaded
    /\ _excel_timestamp > 0
    /\ last.result # EmptyDF /\ DOMAIN _excel_cache = {last.result.sheet}

C7_TTLZeroAlwaysFetches ==
    (Called /\ SHEET_CACHE_TTL = 0) => ~last.hit

\* C8: an access made while the workbook file is missing raises
\* FileNotFoundError, whether the cache is empty or populated.
C8_MissingFileRaises ==
    (Called /\ ~last.fexists) => last.outcome = "FileNotFoundError"

\* C8 witness: the file went missing under a populated cache
C8_Witness ==
    /\ Called /\ ~last.fexists /\ last.outcome = "FileNotFoundError"
    /\ DOMAIN _excel_cache # {}

\* C9: a named call whose name matches no worksheet returns the worksheet at
\* position worksheet_index.
C9_IndexFallback ==
    (/\ Called /\ last.fexists /\ last.name # None
     /\ MatchesNone(file.sheets, last.name)
     /\ last.index + 1 \in DOMAIN file.sheets)
        => (last.outcome = "ok" /\ last.result.sheet = file.sheets[last.index + 1])

----------------------------------------------------------------------------
(* app.py: the route handlers *)

\* The handlers that read through sheet_to_df: the names they ask for, in order,
\* and whether the call sits in a try/except that substitutes pd.DataFrame()
Handlers ==
    { [route |-> "profit_n_loss", guarded |-> TRUE,
       sheets |-> <<<<"P", "&", "L">>>>],
      [route |-> "financial_review", guarded |-> TRUE,
       sheets |-> <<<<"F", "i", "n", "a", "n", "c", "i", "a", "l", " ", "R", "e", "v", "i", "e", "w", " ", "2", "5">>>>],
      [route |-> "ecom", guarded |-> TRUE,
       sheets |-> <<<<"2", "0", "2", "6", " ", "E", "c", "o", "m", " ", "T", "a", "r", "g", "e", "t">>>>],
      [route |-> "ecom_comparison", guarded |-> TRUE,
       sheets |-> <<<<"e", "c", "o", "m", " ", "2", "0", "2", "4", " ", "v", "s", " ", "2", "0", "2", "5">>>>],
      [route |-> "strategy_plan", guarded |-> TRUE,
       sheets |-> <<<<"2", "0", "2", "6", " ", "S", "t", "r", "a", "t", "e", "g", "y", " ", "p", "l", "a", "n">>>>],
      [route |-> "executive_summary_page", guarded |-> TRUE,
       sheets |-> <<<<"e", "x", "e", "_", "s", "u", "m", "m", "a", "r", "y">>,
                    <<"b", "r", "a", "n", "d", "_", "p", "r", "o", "m", "i", "s", "e">>>>],
      [route |-> "top_product_promo", guarded |-> TRUE,
       sheets |-> <<<<"t", "o", "p", "_", "p", "r", "o", "d", "u", "c", "t", "_", "p", "r", "o", "m", "o">>>>],
      [route |-> "value_map", guarded |-> FALSE,
       sheets |-> <<<<"F", "u", "l", "l", " ", "p", "r", "i", "c", "e", " ", "v", "a", "l", "u", "e", "_", "m", "a", "p">>>>],
      [route |-> "value_map_promo", guarded |-> FALSE,
       sheets |-> <<<<"p", "r", "o", "m", "o", " ", "p", "r", "i", "c", "e", " ", "v", "a", "l", "u", "e", "_", "m", "a", "p">>>>],
      [route |-> "trajectories_page", guarded |-> TRUE,
       sheets |-> <<<<"t", "r", "a", "j", "e", "c", "t", "o", "r", "i", "e", "s">>>>],
      [route |-> "retail_swift_online", guarded |-> TRUE,
       sheets |-> <<<<"R", "e", "t", "a", "i", "l", "_", "S", "w", "i", "f", "t", "_", "O", "n", "l", "i", "n", "e">>>>],
      [route |-> "segments_page", guarded |-> TRUE,
       sheets |-> <<<<"C", "o", "r", "e", " ", "-", "N", "e", "w", " ", "s", "e", "g", "m", "e", "n", "t", "s">>>>],
      [route |-> "profit_x", guarded |-> TRUE,
       sheets |-> <<<<"P", "r", "o", "f", "i", "t", " ", "p", "e", "r", " ", "X">>>>],
      [route |-> "top_product", guarded |-> TRUE,
       sheets |-> <<<<"t", "o", "p", "_", "p", "r", "o", "d", "u", "c", "t", "_", "f", "u", "l", "l", "_", "p", "r", "i", "c", "e">>,
                    <<"t", "h", "r", "e", "e", "_", "o", "f", "f", "e", "r">>>>],
      [route |-> "dna_page", guarded |-> TRUE,
       sheets |-> <<<<"d", "n", "a">>>>],
      [route |-> "roadmap_page", guarded |-> TRUE,
       sheets |-> <<<<"r", "o", "a", "d", "m", "a", "p">>>>],
      [route |-> "swot_page", guarded |-> TRUE,
       sheets |-> <<<<"s", "w", "o", "t">>>>],
      [route |-> "cost_per_x", guarded |-> TRUE,
       sheets |-> <<<<"C", "o", "s", "t", " ", "p", "e", "r", " ", "X">>>>],
      [route |-> "okr_page", guarded |-> TRUE,
       sheets |-> <<<<"o", "k", "r">>>>],
      [route |-> "operation_health_page", guarded |-> TRUE,
       sheets |-> <<<<"o", "p", "e", "r", "a", "t", "i", "o", "n", "_", "h", "e", "a", "l", "t", "h">>>>] }

\* The handlers that read the workbook with pd.read_excel inside their own
\* try/except, and the ones that read nothing
DirectHandlers == {"org_structure", "fna_performance_page", "bob_page", "home_page", "index"}

\* Workbooks served to the handlers
HandlerWorkbooks ==
    Workbooks \cup {<<S_Full_price_value_map, S_promo_price_value_map, S_swot>>}

\* What handler h makes of the outcomes r1, r2 of its sheet_to_df calls (r2 is
\* r1 when it makes one call).  A guarded handler replaces a raising call by the
\* empty table and renders; value_map and value_map_promo let FileNotFoundError
\* through, and on a table without the Category column df["Content_Category"]
\* raises KeyError.  A sheet that resolves is taken to carry the columns its
\* handler reads.
RunHandler(h, r1, r2) ==
    LET df1 == IF r1.outcome = "ok" THEN r1.result ELSE EmptyDF
        df2 == IF r2.outcome = "ok" THEN r2.result ELSE EmptyDF
    IN  IF h.guarded
        THEN [status |-> "rendered", empty |-> df1 = EmptyDF /\ df2 = EmptyDF, g |-> r2.g]
        ELSE IF r1.outcome # "ok"
        THEN [status |-> r1.outcome, empty |-> TRUE, g |-> r1.g]
        ELSE IF r1.result = EmptyDF
        THEN [status |-> "KeyError", empty |-> TRUE, g |-> r1.g]
        ELSE [status |-> "rendered", empty |-> FALSE, g |-> r1.g]

InitHandlers ==
    /\ _cache = <<>>
    /\ file \in [exists : BOOLEAN, mtime : 1..MaxMtime, sheets : HandlerWorkbooks]
    /\ now = Epoch
    /\ SHEET_CACHE_TTL \in TTLValues
    /\ _excel_cache = EmptyCache
    /\ _excel_timestamp = 0
    /\ _excel_mtime = None
    /\ book = <<>>
    /\ loadedAt = <<>>
    /\ last = NoCall
    /\ seen = NotSeen
    /\ steady = <<>>
    /\ resp = NoResp
    /\ thr = <<>>
    /\ arg = <<>>
    /\ ret = <<>>

\* One request to handler h: its sheet_to_df calls in order, then the render
Handle ==
    \E h \in Handlers :
    \E r1 \in {SheetToDf(Globals, file, now, SHEET_CACHE_TTL, h.sheets[1], 0)} :
    \E r2 \in {IF Len(h.sheets) > 1
                THEN SheetToDf(r1.g, file, now, SHEET_CACHE_TTL, h.sheets[2], 0)
                ELSE r1} :
    \E r \in {RunHandler(h, r1, r2)} :
        /\ SetGlobals(r.g)
        /\ resp' = [route |-> h.route, status |-> r.status, empty |-> r.empty]
        /\ UNCHANGED <<_cache, thr, arg, ret, file, now, SHEET_CACHE_TTL, last, seen, steady>>

HandleDirect ==
    \E route \in DirectHandlers :
        /\ resp' = [route |-> route, status |-> "rendered",
                     empty |-> ~file.exists /\ route \notin {"home_page", "index"}]
        /\ UNCHANGED <<_cache, thr, arg, ret, file, now, SHEET_CACHE_TTL, _excel_cache, _excel_timestamp,
                       _excel_mtime, book, loadedAt, last, seen, steady>>

\* Requests arrive while the file comes and goes and the clock runs
NextHandlers == Handle \/ HandleDirect \/ FileToggle \/ Tick

SpecHandlers == InitHandlers /\ [][NextHandlers]_vars

\* C10: every route handler, whatever the state of the workbook and of its
\* sheet, completes with a render; no exception leaves a handler.
C10_HandlersNeverRaise ==
    resp.route # "none" => resp.status = "rendered"

----------------------------------------------------------------------------
(* services/google_sheets.py under concurrent requests: no lock guards the    *)
(* module globals, and a thread switch can fall between any two statements.  *)

\* The request threads
Threads == {"t1", "t2"}

\* The names the concurrent requests ask for
ConcNames == {S_swot, S_okr}

\* A thread outside sheet_to_df
IdleThread == [pc |-> "idle", name |-> None, book |-> <<>>, sheet |-> None,
               outcome |-> "none", result |-> EmptyDF]

InitConc ==
    /\ _cache = <<>>
    /\ file \in [exists : {TRUE}, mtime : 1..MaxMtime, sheets : Workbooks]
    /\ now = Epoch
    /\ SHEET_CACHE_TTL \in TTLValues
    /\ _excel_cache = EmptyCache
    /\ _excel_timestamp = 0
    /\ _excel_mtime = None
    /\ book = <<>>
    /\ loadedAt = <<>>
    /\ last = NoCall
    /\ seen = NotSeen
    /\ steady = <<>>
    /\ resp = NoResp
    /\ thr = [t \in Threads |-> IdleThread]
    /\ arg = <<>>
    /\ ret = <<>>

\* What a thread step leaves alone besides the module globals
ConcRest == <<file, now, SHEET_CACHE_TTL, last, seen, steady, resp, arg, ret, _cache>>

\* A request enters sheet_to_df(name)
T_Start(t) ==
    /\ thr[t].pc \in {"idle", "done"}
    /\ \E name \in ConcNames :
           thr' = [thr EXCEPT ![t] = [IdleThread EXCEPT !.pc = "check", !.name = name]]
    /\ UNCHANGED <<_excel_cache, _excel_timestamp, _excel_mtime, book, loadedAt>>
    /\ UNCHANGED ConcRest

\* `if not _excel_cache or _should_reload():`
T_Check(t) ==
    /\ thr[t].pc = "check"
    /\ IF DOMAIN _excel_cache = {}
       THEN /\ thr' = [thr EXCEPT ![t].pc = "clear"]
            /\ UNCHANGED <<_excel_cache, _excel_timestamp, _excel_mtime, book, loadedAt>>
       ELSE \E sr \in {_should_reload(Globals, file, now, SHEET_CACHE_TTL)} :
                /\ SetGlobals(sr.g)
                /\ thr' = [thr EXCEPT ![t].pc = IF sr.raise THEN "done"
                                                 ELSE IF sr.reload THEN "clear" ELSE "load",
                                      ![t].outcome = IF sr.raise THEN "FileNotFoundError"
                                                      ELSE "none"]
    /\ UNCHANGED ConcRest

\* `_excel_cache = {}`
T_Clear(t) ==
    /\ thr[t].pc = "clear"
    /\ _excel_cache' = EmptyCache
    /\ thr' = [thr EXCEPT ![t].pc = "cache_clear"]
    /\ UNCHANGED <<_excel_timestamp, _excel_mtime, book, loadedAt>>
    /\ UNCHANGED ConcRest

\* `_load_workbook.cache_clear()`
T_CacheClear(t) ==
    /\ thr[t].pc = "cache_clear"
    /\ book' = <<>>
    /\ thr' = [thr EXCEPT ![t].pc = "reopen"]
    /\ UNCHANGED <<_excel_cache, _excel_timestamp, _excel_mtime, loadedAt>>
    /\ UNCHANGED ConcRest

\* `_load_workbook()` at the end of _refresh_workbook_if_needed
T_Reopen(t) ==
    /\ thr[t].pc = "reopen"
    /\ \E lw \in {_load_workbook(Globals, file, now)} :
           /\ SetGlobals(lw.g)
           /\ thr' = [thr EXCEPT ![t].pc = IF lw.raise THEN "done" ELSE "load",
                                 ![t].outcome = IF lw.raise THEN "FileNotFoundError"
                                                 ELSE "none"]
    /\ UNCHANGED ConcRest

\* `book = _load_workbook()` and the resolution of the name on that handle
T_Load(t) ==
    /\ thr[t].pc = "load"
    /\ \E lw \in {_load_workbook(Globals, file, now)} :
           /\ SetGlobals(lw.g)
           /\ IF lw.raise
              THEN thr' = [thr EXCEPT ![t].pc = "done", ![t].outcome = "FileNotFoundError"]
              ELSE \E sn \in {PickSheet(lw.g.book[1].sheet_names, thr[t].name, 0)} :
                       thr' = [thr EXCEPT ![t].book = lw.g.book,
                                          ![t].sheet = sn,
                                          ![t].pc = IF sn = None THEN "done" ELSE "member",
                                          ![t].outcome = IF sn = None THEN "ok" ELSE "none"]
    /\ UNCHANGED ConcRest

\* `if sheet_name not in _excel_cache:`
T_Member(t) ==
    /\ thr[t].pc = "member"
    /\ thr' = [thr EXCEPT ![t].pc = IF thr[t].sheet \in DOMAIN _excel_cache
                                     THEN "return" ELSE "store"]
    /\ UNCHANGED <<_excel_cache, _excel_timestamp, _excel_mtime, book, loadedAt>>
    /\ UNCHANGED ConcRest

\* `_excel_cache[sheet_name] = book.parse(sheet_name).fillna("")`
T_Store(t) ==
    /\ thr[t].pc = "store"
    /\ _excel_cache' = CachePut(_excel_cache, thr[t].sheet,
                               fillna(Parse(thr[t].book[1], thr[t].sheet)))
    /\ thr' = [thr EXCEPT ![t].pc = "return"]
    /\ UNCHANGED <<_excel_timestamp, _excel_mtime, book, loadedAt>>
    /\ UNCHANGED ConcRest

\* `return _excel_cache[sheet_name].copy()`: KeyError when the entry is gone
T_Return(t) ==
    /\ thr[t].pc = "return"
    /\ thr' = [thr EXCEPT ![t].pc = "done",
                          ![t].outcome = IF thr[t].sheet \in DOMAIN _excel_cache
                                          THEN "ok" ELSE "KeyError",
                          ![t].result = IF thr[t].sheet \in DOMAIN _excel_cache
                                         THEN _excel_cache[thr[t].sheet] ELSE EmptyDF]
    /\ UNCHANGED <<_excel_cache, _excel_timestamp, _excel_mtime, book, loadedAt>>
    /\ UNCHANGED ConcRest

Start == \E t \in Threads : T_Start(t)
Check == \E t \in Threads : T_Check(t)
Clear == \E t \in Threads : T_Clear(t)
CacheClear == \E t \in Threads : T_CacheClear(t)
Reopen == \E t \in Threads : T_Reopen(t)
Load == \E t \in Threads : T_Load(t)
Member == \E t \in Threads : T_Member(t)
Store == \E t \in Threads : T_Store(t)
Return == \E t \in Threads : T_Return(t)

\* Requests run while the file may be replaced
NextConc ==
    \/ Start \/ Check \/ Clear \/ CacheClear \/ Reopen \/ Load \/ Member \/ Store \/ Return
    \/ FileChange

SpecConc == InitConc /\ [][NextConc]_vars

\* C11: with the file present throughout, every concurrent call completes
\* without an error and returns the table of the sheet it asked for.
C11_RacesAreBenign ==
    \A t \in Threads :
        thr[t].pc = "done"
            => (/\ thr[t].outcome = "ok"
                /\ thr[t].result.sheet = _normalize_sheet_name(file.sheets, thr[t].name))

----------------------------------------------------------------------------
(* app.py: org_structure.  The handler reads the org_chart sheet with        *)
(* pd.read_excel (no fillna): an empty cell is NaN and str(NaN) is "nan".    *)

MaxRows == 3       \* rows of the org_chart table

\* str(NaN)
S_nan == <<"n", "a", "n">>
S_Vacant == <<"(", "V", "a", "c", "a", "n", "t", ")">>
S_vacant == <<"(", "v", "a", "c", "a", "n", "t", ")">>
S_Vacant_ == <<"V", "a", "c", "a", "n", "t", "_">>
S_blank == <<" ">>
S_A == <<"A">>
S_0 == <<"0">>

\* str(cell)
PyStr(cell) == IF cell = NaN THEN S_nan ELSE cell

RECURSIVE LStrip(_)
LStrip(s) == IF s # <<>> /\ Head(s) = " " THEN LStrip(Tail(s)) ELSE s

RECURSIVE RStrip(_)
RStrip(s) == IF s # <<>> /\ s[Len(s)] = " " THEN RStrip(SubSeq(s, 1, Len(s) - 1)) ELSE s

\* str.strip()
Strip(s) == RStrip(LStrip(s))

Digits == <<"0", "1", "2", "3", "4", "5", "6", "7", "8", "9">>

\* str(n) of a natural number
RECURSIVE ItoA(_)
ItoA(n) == IF n < 10 THEN <<Digits[n + 1]>> ELSE ItoA(n \div 10) \o <<Digits[(n % 10) + 1]>>

\* A dict kept as the sequence of its <<key, value>> items in insertion order
DictHas(d, k) == \E i \in DOMAIN d : d[i][1] = k

DictGet(d, k) == d[CHOOSE i \in DOMAIN d : d[i][1] = k][2]

\* d[k] = v: an existing key keeps its position
DictSet(d, k, v) ==
    IF DictHas(d, k)
    THEN [i \in DOMAIN d |-> IF d[i][1] = k THEN <<k, v>> ELSE d[i]]
    ELSE Append(d, <<k, v>>)

DictKeys(d) == [i \in DOMAIN d |-> d[i][1]]

\* First pass of org_structure, rows i.. : the employees and vacant_map dicts
RECURSIVE FirstPass(_, _, _, _)
FirstPass(rows, i, employees, vacant_map) ==
    IF i > Len(rows) THEN [employees |-> employees, vacant_map |-> vacant_map]
    ELSE LET original_name == Strip(PyStr(rows[i].Name))
             vacant == original_name = <<>> \/ Lower(original_name) = S_vacant
             generated_name == S_Vacant_ \o ItoA(Len(vacant_map) + 1)
             name == IF vacant THEN generated_name ELSE original_name
             emp == [name |-> name, original_name |-> original_name,
                     reports_to_raw |-> Strip(PyStr(rows[i].Reports_To))]
         IN  FirstPass(rows, i + 1, DictSet(employees, name, emp),
                       IF vacant THEN DictSet(vacant_map, original_name, generated_name)
                       ELSE vacant_map)

\* Second pass: emp["reports_to"]
ReportsTo(emp, employees, vacant_map) ==
    LET reports_to == emp.reports_to_raw
    IN  IF reports_to = <<>> \/ reports_to = S_0 THEN <<>>
        ELSE IF DictHas(vacant_map, reports_to) THEN DictGet(vacant_map, reports_to)
        ELSE IF DictHas(employees, reports_to) THEN reports_to
        ELSE <<>>

\* Build hierarchy: `not parent or parent not in employees or parent == name`
IsRoot(name, parent, employees) ==
    parent = <<>> \/ ~DictHas(employees, parent) \/ parent = name

\* The elements of seq that are in keep, in order
RECURSIVE Filter(_, _)
Filter(seq, keep) ==
    IF seq = <<>> THEN <<>>
    ELSE (IF Head(seq) \in keep THEN <<Head(seq)>> ELSE <<>>) \o Filter(Tail(seq), keep)

\* org_structure on the rows of the sheet: the nodes in employees order, each
\* with its normalized parent; root_nodes; children per node
org_structure(rows) ==
    LET fp == FirstPass(rows, 1, <<>>, <<>>)
        names == DictKeys(fp.employees)
        parent == [n \in Range(names) |->
                      ReportsTo(DictGet(fp.employees, n), fp.employees, fp.vacant_map)]
        roots == {n \in Range(names) : IsRoot(n, parent[n], fp.employees)}
    IN  [names |-> names,
         raw |-> [n \in Range(names) |-> DictGet(fp.employees, n).reports_to_raw],
         vacant_map |-> fp.vacant_map,
         root_nodes |-> Filter(names, roots),
         children |-> [p \in Range(names) |->
                          Filter(names, {n \in Range(names) \ roots : parent[n] = p})]]

\* The cells tried in the Name and Reports_To columns
OrgNames == {S_Vacant, S_blank, NaN, S_A, S_0}

OrgRefs == {NaN, S_0, S_A, S_Vacant}

OrgRows == [Name : OrgNames, Reports_To : OrgRefs]

OrgTables == UNION {[1..n -> OrgRows] : n \in 0..MaxRows}

InitOrg ==
    /\ _cache = <<>>
    /\ file = [exists |-> TRUE, mtime |-> 1, sheets |-> <<>>]
    /\ now = Epoch
    /\ SHEET_CACHE_TTL = 0
    /\ _excel_cache = EmptyCache
    /\ _excel_timestamp = 0
    /\ _excel_mtime = None
    /\ book = <<>>
    /\ loadedAt = <<>>
    /\ last = NoCall
    /\ seen = NotSeen
    /\ steady = <<>>
    /\ resp = NoResp
    /\ thr = <<>>
    /\ arg \in OrgTables
    /\ ret = <<>>

\* What applying a helper leaves alone
HelperRest == <<file, now, SHEET_CACHE_TTL, _excel_cache, _excel_timestamp, _excel_mtime,
                book, loadedAt, last, seen, steady, resp, thr, arg, _cache>>

BuildOrg ==
    /\ ret = <<>>
    /\ ret' = <<org_structure(arg)>>
    /\ UNCHANGED HelperRest

NextOrg == BuildOrg

SpecOrg == InitOrg /\ [][NextOrg]_vars

\* A row of the table is a vacancy: its Name is blank or "(Vacant)"
IsVacancy(row) == row.Name \in {NaN, S_blank, <<>>, S_Vacant}

VacantRows(rows) == {i \in DOMAIN rows : IsVacancy(rows[i])}

\* C12: N vacant rows give exactly the N placeholder nodes Vacant_1 .. Vacant_N.
C12_OnePlaceholderPerVacancy ==
    ret # <<>>
        => LET N == Cardinality(VacantRows(arg))
               placeholders == {n \in Range(ret[1].names) :
                                   Len(n) > Len(S_Vacant_) /\ SubSeq(n, 1, Len(S_Vacant_)) = S_Vacant_}
           IN  placeholders = {S_Vacant_ \o ItoA(k) : k \in 1..N}

\* A Reports_To that names nobody: an empty cell (read as NaN, str "nan"), blank
\* text, or the "0" the sheet uses for no manager
EmptyRef(raw) == raw \in {<<>>, S_nan, S_0}

\* The node a Reports_To text names: a vacancy through vacant_map, else itself
NamedNode(raw, vacant_map) ==
    IF DictHas(vacant_map, raw) THEN DictGet(vacant_map, raw) ELSE raw

\* C13: a node is a root iff its Reports_To is empty, names the node itself or
\* names no node; any other node is in the children of the node named, only.
C13_RootsAndChildren ==
    ret # <<>>
        => LET o == ret[1]
               nodes == Range(o.names)
           IN  \A n \in nodes :
                   LET named == NamedNode(o.raw[n], o.vacant_map)
                       root == EmptyRef(o.raw[n]) \/ named = n \/ named \notin nodes
                   IN  /\ (n \in Range(o.root_nodes)) <=> root
                       /\ \A p \in nodes :
                              (n \in Range(o.children[p])) <=> (~root /\ p = named)

----------------------------------------------------------------------------
(* app.py: the numeric cleanup helpers.  A float is the record              *)
(* [neg, int, frac]: sign, the digits of the integer part without leading   *)
(* zeros (none for 0), the fraction digits without trailing zeros; a         *)
(* helper's result is [kind, v, s] with kind "float", "None", "str" (the     *)
(* text s handed back) or "ValueError" (raised).                             *)

MaxLen == 3        \* length of the cell texts tried, besides the named ones

DigitChars == Range(Digits)

\* integer digits without their leading zeros
RECURSIVE TrimLeadingZeros(_)
TrimLeadingZeros(ds) ==
    IF ds # <<>> /\ Head(ds) = "0" THEN TrimLeadingZeros(Tail(ds)) ELSE ds

\* fraction digits without their trailing zeros
RECURSIVE TrimZeros(_)
TrimZeros(ds) ==
    IF ds # <<>> /\ ds[Len(ds)] = "0" THEN TrimZeros(SubSeq(ds, 1, Len(ds) - 1)) ELSE ds

\* The float with the given sign, integer digits and fraction digits
MkFloat(neg, idigits, fdigits) ==
    LET i == TrimLeadingZeros(idigits)
        f == TrimZeros(fdigits)
    IN  [neg |-> neg /\ (i # <<>> \/ f # <<>>), int |-> i, frac |-> f]

\* The characters of s that are in keep, in order
RECURSIVE KeepChars(_, _)
KeepChars(s, keep) ==
    IF s = <<>> THEN <<>>
    ELSE (IF Head(s) \in keep THEN <<Head(s)>> ELSE <<>>) \o KeepChars(Tail(s), keep)

\* s.replace(c, "")
RemoveChar(s, c) == KeepChars(s, Range(s) \ {c})

\* Position of the first "." of s, 0 if none
FirstDot(s) ==
    IF "." \in Range(s) THEN CHOOSE i \in DOMAIN s : s[i] = "." /\ \A j \in 1..(i - 1) : s[j] # "."
    ELSE 0

\* float(s) on text made of digits, ".", signs and blanks: <<>> is ValueError
PyFloat(s) ==
    LET t == Strip(s)
        signed == t # <<>> /\ Head(t) \in {"-", "+"}
        body == IF signed THEN Tail(t) ELSE t
        dot == FirstDot(body)
        idigits == IF dot = 0 THEN body ELSE SubSeq(body, 1, dot - 1)
        fdigits == IF dot = 0 THEN <<>> ELSE SubSeq(body, dot + 1, Len(body))
    IN  IF /\ Range(idigits) \subseteq DigitChars
           /\ Range(fdigits) \subseteq DigitChars
           /\ Len(idigits) + Len(fdigits) > 0
        THEN <<MkFloat(signed /\ Head(t) = "-", idigits, fdigits)>>
        ELSE <<>>

R_None == [kind |-> "None", v |-> MkFloat(FALSE, <<>>, <<>>), s |-> <<>>]

R_Float(x) == [kind |-> "float", v |-> x, s |-> <<>>]

R_Str(t) == [kind |-> "str", v |-> MkFloat(FALSE, <<>>, <<>>), s |-> t]

R_ValueError == [kind |-> "ValueError", v |-> MkFloat(FALSE, <<>>, <<>>), s |-> <<>>]

\* x * 10^k for a float record
RECURSIVE Times10(_, _)
Times10(x, k) ==
    IF k = 0 THEN x
    ELSE Times10([neg |-> x.neg,
                  int |-> TrimLeadingZeros(x.int \o <<IF x.frac = <<>> THEN "0"
                                                       ELSE Head(x.frac)>>),
                  frac |-> IF x.frac = <<>> THEN <<>> ELSE Tail(x.frac)], k - 1)

\* The longest run of digits and dots of s starting at position i
RECURSIVE NumRun(_, _)
NumRun(s, i) ==
    IF i <= Len(s) /\ s[i] \in DigitChars \cup {"."} THEN <<s[i]>> \o NumRun(s, i + 1) ELSE <<>>

\* The position after the blanks of s that start at position i
RECURSIVE SkipBlanks(_, _)
SkipBlanks(s, i) == IF i <= Len(s) /\ s[i] = " " THEN SkipBlanks(s, i + 1) ELSE i

\* clean_number as the module binds it: the second definition replaces the
\* first.  re.search(r'([\d.]+)\s*([BM]?)') takes the leftmost run of digits
\* and dots and an optional unit after blanks
clean_number(val) ==
    LET v == Strip(val)
        starts == {i \in DOMAIN v : v[i] \in DigitChars \cup {"."}}
    IN  IF v = <<>> THEN R_Str(v)
        ELSE IF starts = {} THEN R_Str(v)
        ELSE LET i == CHOOSE a \in starts : \A b \in starts : a <= b
                 run == NumRun(v, i)
                 u == SkipBlanks(v, i + Len(run))
                 unit == IF u <= Len(v) /\ v[u] \in {"B", "M"} THEN v[u] ELSE ""
                 num == PyFloat(run)
             IN  IF num = <<>> THEN R_ValueError
                 ELSE IF unit = "B" THEN R_Float(Times10(num[1], 9))
                 ELSE IF unit = "M" THEN R_Float(Times10(num[1], 6))
                 ELSE R_Float(num[1])

\* parse_number(x) on a text cell
parse_number(x) ==
    IF x = <<>> THEN R_None
    ELSE LET s == KeepChars(RemoveChar(RemoveChar(x, ","), " "), DigitChars \cup {".", "-"})
             f == PyFloat(s)
         IN  IF f = <<>> THEN R_None ELSE R_Float(f[1])

\* numberish_to_float(x) of top_product and top_product_promo on a text cell
numberish_to_float(x) ==
    IF x = <<>> THEN R_None
    ELSE LET f == PyFloat(RemoveChar(Strip(x), ","))
         IN  IF f = <<>> THEN R_None ELSE R_Float(f[1])

\* to_float(val) of profit_n_loss on a text cell: the default is 0.0
to_float(val) ==
    IF val = <<>> THEN R_Float(MkFloat(FALSE, <<>>, <<>>))
    ELSE LET f == PyFloat(Strip(RemoveChar(val, ",")))
         IN  IF f = <<>> THEN R_Float(MkFloat(FALSE, <<>>, <<>>)) ELSE R_Float(f[1])

\* The characters of the short cell texts
CellChars == {"1", "5", "0", ",", ".", "$", "-", " ", "a", "B"}

S_15_750 == <<"1", "5", ",", "7", "5", "0">>
S_mathbf_5_250 == <<"$", "\\", "m", "a", "t", "h", "b", "f", "{", "5", ",", "2", "5", "0", "}", "$">>
S_abc == <<"a", "b", "c">>
S_1_2_3 == <<"1", ".", "2", ".", "3">>
S_dollar_5_250 == <<"$", "5", ",", "2", "5", "0">>

CellTexts ==
    UNION {[1..n -> CellChars] : n \in 0..MaxLen}
        \cup {S_15_750, S_mathbf_5_250, S_abc, S_1_2_3, S_dollar_5_250}

InitNumbers ==
    /\ _cache = <<>>
    /\ file = [exists |-> TRUE, mtime |-> 1, sheets |-> <<>>]
    /\ now = Epoch
    /\ SHEET_CACHE_TTL = 0
    /\ _excel_cache = EmptyCache
    /\ _excel_timestamp = 0
    /\ _excel_mtime = None
    /\ book = <<>>
    /\ loadedAt = <<>>
    /\ last = NoCall
    /\ seen = NotSeen
    /\ steady = <<>>
    /\ resp = NoResp
    /\ thr = <<>>
    /\ arg \in CellTexts
    /\ ret = <<>>

CleanNumber ==
    /\ ret = <<>>
    /\ ret' = <<[fn |-> "clean_number", out |-> clean_number(arg)]>>
    /\ UNCHANGED HelperRest

ParseNumber ==
    /\ ret = <<>>
    /\ ret' = <<[fn |-> "parse_number", out |-> parse_number(arg)]>>
    /\ UNCHANGED HelperRest

NumberishToFloat ==
    /\ ret = <<>>
    /\ ret' = <<[fn |-> "numberish_to_float", out |-> numberish_to_float(arg)]>>
    /\ UNCHANGED HelperRest

ToFloat ==
    /\ ret = <<>>
    /\ ret' = <<[fn |-> "to_float", out |-> to_float(arg)]>>
    /\ UNCHANGED HelperRest

NextNumbers == CleanNumber \/ ParseNumber \/ NumberishToFloat \/ ToFloat

SpecNumbers == InitNumbers /\ [][NextNumbers]_vars

\* The float of a whole number
Whole(n) == [neg |-> FALSE, int |-> TrimLeadingZeros(ItoA(n)), frac |-> <<>>]

\* C14: clean_number gives 15750.0 for "15,750", 5250.0 for the LaTeX markup
\* of 5,250, and the missing value for "" and for text without a number.
C14_CleanNumberExamples ==
    (ret # <<>> /\ ret[1].fn = "clean_number")
        => /\ arg = S_15_750 => ret[1].out = R_Float(Whole(15750))
           /\ arg = S_mathbf_5_250 => ret[1].out = R_Float(Whole(5250))
           /\ (arg = <<>> \/ arg = S_abc) => ret[1].out = R_None

\* The number written in text once everything but digits, "." and "-" is
\* dropped (separators, currency signs, LaTeX markup, unit letters, blanks)
StrippedNumber(text) == PyFloat(KeepChars(text, DigitChars \cup {".", "-"}))

\* What a helper returns for no number: None, or 0.0 for to_float
Missing(fn) == IF fn = "to_float" THEN R_Float(MkFloat(FALSE, <<>>, <<>>)) ELSE R_None

Cleaners == {"parse_number", "numberish_to_float", "to_float"}

\* C15: the three helpers never raise and return the number left
\* after stripping separators and currency/LaTeX markup, or the missing value.
C15_CleanupStripsMarkup ==
    (ret # <<>> /\ ret[1].fn \in Cleaners)
        => /\ ret[1].out.kind \in {"float", "None"}
           /\ ret[1].out = IF StrippedNumber(arg) = <<>> THEN Missing(ret[1].fn)
                           ELSE R_Float(StrippedNumber(arg)[1])

----------------------------------------------------------------------------
(* app.py: okr_page *)

MaxOkrRows == 2    \* rows of the okr sheet

\* The characters compared by sorted(), in code point order
AsciiOrder ==
    <<" ", "$", "%", "(", ")", ",", "-", ".",
      "0", "1", "2", "3", "4", "5", "6", "7", "8", "9",
      "A", "B", "C", "D", "E", "F", "G", "H", "I", "J", "K", "L", "M",
      "N", "O", "P", "Q", "R", "S", "T", "U", "V", "W", "X", "Y", "Z", "_",
      "a", "b", "c", "d", "e", "f", "g", "h", "i", "j", "k", "l", "m",
      "n", "o", "p", "q", "r", "s", "t", "u", "v", "w", "x", "y", "z">>

Ord(c) == CHOOSE i \in DOMAIN AsciiOrder : AsciiOrder[i] = c

\* a < b for str
RECURSIVE TextLess(_, _)
TextLess(a, b) ==
    IF b = <<>> THEN FALSE
    ELSE IF a = <<>> THEN TRUE
    ELSE IF Head(a) = Head(b) THEN TextLess(Tail(a), Tail(b))
    ELSE Ord(Head(a)) < Ord(Head(b))

\* sorted(S) for a set of str
RECURSIVE SortedTexts(_)
SortedTexts(S) ==
    IF S = {} THEN <<>>
    ELSE LET m == CHOOSE a \in S : \A b \in S \ {a} : TextLess(a, b)
         IN  <<m>> \o SortedTexts(S \ {m})

\* `sub in s`
Contains(s, sub) ==
    \E i \in 1..(Len(s) - Len(sub) + 1) : SubSeq(s, i, i + Len(sub) - 1) = sub

S_2025 == <<"2", "0", "2", "5">>
S_2026 == <<"2", "0", "2", "6">>

\* The rows appended to okr_2025, and to okr_2026 (the elif)
okr_2025(rows) == SelectSeq(rows, LAMBDA row : Contains(Strip(row.Years), S_2025))

okr_2026(rows) ==
    SelectSeq(rows, LAMBDA row : /\ ~Contains(Strip(row.Years), S_2025)
                                 /\ Contains(Strip(row.Years), S_2026))

\* teams_2025[team] / teams_2026[team]: the rows of a year list whose stripped
\* "Functional POVs" is team
TeamItems(items, team) == SelectSeq(items, LAMBDA row : Strip(row.POV) = team)

TeamKeys(items) == {Strip(items[i].POV) : i \in DOMAIN items}

\* compute_avg returning a value whenever it is given a row
compute_avg_any(items) ==
    IF items = <<>> THEN <<>> ELSE <<[i \in DOMAIN items |-> items[i].Average]>>

\* compute_avg(rows): <<>> is None; otherwise <<the texts averaged>> (the mean
\* itself, round(sum(values) / len(values), 1), is not computed here)
compute_avg(items) ==
    LET values == SelectSeq(items, LAMBDA r :
                      /\ r.Average # <<>>
                      /\ PyFloat(Strip(RemoveChar(r.Average, "%"))) # <<>>)
    IN  IF values = <<>> THEN <<>> ELSE <<[i \in DOMAIN values |-> values[i].Average]>>

\* The keys of obj_map in insertion order: first occurrences in seq
RECURSIVE FirstSeen(_, _)
FirstSeen(seq, seen_keys) ==
    IF seq = <<>> THEN <<>>
    ELSE IF Head(seq) \in seen_keys THEN FirstSeen(Tail(seq), seen_keys)
    ELSE <<Head(seq)>> \o FirstSeen(Tail(seq), seen_keys \cup {Head(seq)})

\* One element of comparison
TeamEntry(team, items_2025, items_2026) ==
    LET both == items_2025 \o items_2026
        objs == FirstSeen([i \in DOMAIN both |-> both[i].Objective], {})
    IN  [team |-> team,
         objectives |-> [k \in DOMAIN objs |->
             [objective |-> objs[k],
              items_2025 |-> SelectSeq(items_2025, LAMBDA r : r.Objective = objs[k]),
              items_2026 |-> SelectSeq(items_2026, LAMBDA r : r.Objective = objs[k])]],
         avg_2025 |-> compute_avg(items_2025),
         avg_2026 |-> compute_avg(items_2026)]

\* okr_page on the rows of the sheet: the comparison list
okr_page(rows) ==
    LET y25 == okr_2025(rows)
        y26 == okr_2026(rows)
        all_teams == SortedTexts(TeamKeys(y25) \cup TeamKeys(y26))
    IN  [k \in DOMAIN all_teams |->
            TeamEntry(all_teams[k], TeamItems(y25, all_teams[k]), TeamItems(y26, all_teams[k]))]

S_B == <<"B">>
S_B_ == <<"B", " ">>
S_O1 == <<"O", "1">>
S_O2 == <<"O", "2">>
S_70pct == <<"7", "0", "%">>
S_x == <<"x">>

\* The cells tried in the okr sheet (every cell is text after fillna(""))
OkrCells == [Years : {S_2025, S_2026, <<>>}, POV : {S_A, S_B, S_B_},
             Objective : {S_O1, S_O2}, Average : {S_70pct, S_x}]

\* The tables: row i carries its position as id
OkrTables ==
    UNION {{[i \in 1..n |-> [id |-> i, Years |-> t[i].Years, POV |-> t[i].POV,
                             Objective |-> t[i].Objective, Average |-> t[i].Average]] :
               t \in [1..n -> OkrCells]} : n \in 0..MaxOkrRows}

InitOkr ==
    /\ _cache = <<>>
    /\ file = [exists |-> TRUE, mtime |-> 1, sheets |-> <<>>]
    /\ now = Epoch
    /\ SHEET_CACHE_TTL = 0
    /\ _excel_cache = EmptyCache
    /\ _excel_timestamp = 0
    /\ _excel_mtime = None
    /\ book = <<>>
    /\ loadedAt = <<>>
    /\ last = NoCall
    /\ seen = NotSeen
    /\ steady = <<>>
    /\ resp = NoResp
    /\ thr = <<>>
    /\ arg \in OkrTables
    /\ ret = <<>>

BuildOkr ==
    /\ ret = <<>>
    /\ ret' = <<okr_page(arg)>>
    /\ UNCHANGED HelperRest

NextOkr == BuildOkr

SpecOkr == InitOkr /\ [][NextOkr]_vars

\* ids of a list of rows
Ids(items) == [i \in DOMAIN items |-> items[i].id]

Increasing(ns) == \A i, j \in DOMAIN ns : i < j => ns[i] < ns[j]

\* The Average cell is a number, with or without a percent sign
NumericAverage(row) == PyFloat(RemoveChar(row.Average, "%")) # <<>>

\* The rows listed under a team for a year
Listed(entry, year) ==
    {r \in Range(arg) :
        \E k \in DOMAIN entry.objectives :
            r \in Range(IF year = S_2025 THEN entry.objectives[k].items_2025
                        ELSE entry.objectives[k].items_2026)}

\* C16: one entry per distinct team in sorted order; per team the rows are
\* grouped by objective into items_2025 and items_2026 in source order; every
\* tagged row is in exactly one list; a team's average of a year is present
\* exactly when one of its rows of that year has a numeric Average.
C16_OkrGrouping ==
    ret # <<>>
        => LET c == ret[1]
               tagged == {r \in Range(arg) :
                             Contains(r.Years, S_2025) \/ Contains(r.Years, S_2026)}
               lists == {<<k, o, y>> \in (DOMAIN c) \X (1..MaxOkrRows + 1) \X {S_2025, S_2026} :
                             o \in DOMAIN c[k].objectives}
               ListOf(l) == IF l[3] = S_2025 THEN c[l[1]].objectives[l[2]].items_2025
                            ELSE c[l[1]].objectives[l[2]].items_2026
           IN  /\ {c[k].team : k \in DOMAIN c} = {Strip(r.POV) : r \in tagged}
               /\ \A i, j \in DOMAIN c : i < j => TextLess(c[i].team, c[j].team)
               /\ \A l \in lists :
                      /\ Increasing(Ids(ListOf(l)))
                      /\ \A r \in Range(ListOf(l)) :
                             /\ r \in tagged /\ Contains(r.Years, l[3])
                             /\ Strip(r.POV) = c[l[1]].team
                             /\ r.Objective = c[l[1]].objectives[l[2]].objective
               /\ \A k \in DOMAIN c : \A o1, o2 \in DOMAIN c[k].objectives :
                      o1 # o2 => c[k].objectives[o1].objective # c[k].objectives[o2].objective
               /\ \A r \in tagged : Cardinality({l \in lists : r \in Range(ListOf(l))}) = 1
               /\ \A k \in DOMAIN c :
                      /\ c[k].avg_2025 # <<>> <=> \E r \in Listed(c[k], S_2025) : NumericAverage(r)
                      /\ c[k].avg_2026 # <<>> <=> \E r \in Listed(c[k], S_2026) : NumericAverage(r)

\* C16 witness: two rows of one team and objective, one per year, the 2025 one
\* with a numeric Average and the 2026 one without
C16_Witness ==
    /\ ret # <<>> /\ Len(ret[1]) = 1 /\ Len(ret[1][1].objectives) = 1
    /\ Len(ret[1][1].objectives[1].items_2025) = 1
    /\ Len(ret[1][1].objectives[1].items_2026) = 1
    /\ ret[1][1].avg_2025 # <<>> /\ ret[1][1].avg_2026 = <<>>

----------------------------------------------------------------------------
(* app.py: ecom_comparison, the month summary.  Only the Months and 2025    *)
(* columns take part in it; the totals and the averages are divisions by    *)
(* count and their values are not computed here.                            *)

MaxEcomRows == 3   \* rows of the "ecom 2024 vs 2025" sheet

\* a < b for floats
FloatLess(a, b) ==
    LET MagLess(x, y) ==
            \/ Len(x.int) < Len(y.int)
            \/ Len(x.int) = Len(y.int) /\ TextLess(x.int, y.int)
            \/ x.int = y.int /\ TextLess(x.frac, y.frac)
    IN  IF a.neg /\ ~b.neg THEN TRUE
        ELSE IF ~a.neg /\ b.neg THEN FALSE
        ELSE IF a.neg THEN MagLess(b, a)
        ELSE MagLess(a, b)

\* digits + 1
RECURSIVE IncDigits(_)
IncDigits(ds) ==
    IF ds = <<>> THEN <<"1">>
    ELSE IF ds[Len(ds)] = "9" THEN IncDigits(SubSeq(ds, 1, Len(ds) - 1)) \o <<"0">>
    ELSE SubSeq(ds, 1, Len(ds) - 1) \o <<Digits[Ord(ds[Len(ds)]) - Ord("0") + 2]>>

\* digits with a comma before every group of three
RECURSIVE Commas(_)
Commas(ds) ==
    IF Len(ds) <= 3 THEN ds
    ELSE Commas(SubSeq(ds, 1, Len(ds) - 3)) \o <<",">> \o SubSeq(ds, Len(ds) - 2, Len(ds))

\* fmt_int(val) = f"{float(val):,.0f}": rounded half to even, grouped
fmt_int(x) ==
    LET odd == x.int # <<>> /\ x.int[Len(x.int)] \in {"1", "3", "5", "7", "9"}
        up == /\ x.frac # <<>>
              /\ \/ TextLess(<<"5">>, x.frac)
                 \/ x.frac = <<"5">> /\ odd
        digits == IF up THEN IncDigits(x.int) ELSE x.int
    IN  (IF x.neg THEN <<"-">> ELSE <<>>) \o (IF digits = <<>> THEN <<"0">> ELSE Commas(digits))

\* `parse_number(cell) or 0`
NumberOrZero(cell) ==
    IF parse_number(cell).kind = "float" THEN parse_number(cell).v
    ELSE MkFloat(FALSE, <<>>, <<>>)

\* records: one entry per row
EcomRecords(rows) ==
    [i \in DOMAIN rows |-> [Months |-> Strip(rows[i].Months), v2025 |-> NumberOrZero(rows[i].v2025)]]

\* max(records, key=...) / min(records, key=...): the position of the first
\* extreme element among the positions idx (not empty)
FirstMax(records, idx) ==
    CHOOSE i \in idx : /\ \A j \in idx : ~FloatLess(records[i].v2025, records[j].v2025)
                       /\ \A j \in idx : j < i => FloatLess(records[j].v2025, records[i].v2025)

FirstMin(records, idx) ==
    CHOOSE i \in idx : /\ \A j \in idx : ~FloatLess(records[j].v2025, records[i].v2025)
                       /\ \A j \in idx : j < i => FloatLess(records[i].v2025, records[j].v2025)

S_dec == <<"d", "e", "c">>
S_december == <<"d", "e", "c", "e", "m", "b", "e", "r">>

\* eligible_min taking every record
eligible_min_all(records) == DOMAIN records

\* eligible_min: the positions of the records that are not December
eligible_min(records) ==
    {i \in DOMAIN records : Lower(records[i].Months) \notin {S_dec, S_december}}

S_dash == <<"-">>

\* comp_summary of ecom_comparison
ecom_comparison(rows) ==
    LET records == EcomRecords(rows)
        min_source == IF eligible_min(records) # {} THEN eligible_min(records)
                      ELSE DOMAIN records
    IN  IF records = <<>>
        THEN [max_month |-> S_dash, max_value |-> S_0, min_month |-> S_dash,
              min_value |-> S_0, count |-> 1]
        ELSE [max_month |-> records[FirstMax(records, DOMAIN records)].Months,
              max_value |-> fmt_int(records[FirstMax(records, DOMAIN records)].v2025),
              min_month |-> records[FirstMin(records, min_source)].Months,
              min_value |-> fmt_int(records[FirstMin(records, min_source)].v2025),
              count |-> Len(records)]

S_Jan == <<"J", "a", "n">>
S_Feb == <<"F", "e", "b">>
S_Dec == <<"D", "e", "c">>
S_DECEMBER_ == <<"D", "E", "C", "E", "M", "B", "E", "R", " ">>
S_1 == <<"1">>
S_2_5 == <<"2", ".", "5">>
S_1_000 == <<"1", ",", "0", "0", "0">>

EcomCells == [Months : {S_Jan, S_Feb, S_Dec, S_DECEMBER_}, v2025 : {<<>>, S_1, S_2_5, S_1_000}]

EcomTables == UNION {[1..n -> EcomCells] : n \in 0..MaxEcomRows}

InitEcom ==
    /\ _cache = <<>>
    /\ file = [exists |-> TRUE, mtime |-> 1, sheets |-> <<>>]
    /\ now = Epoch
    /\ SHEET_CACHE_TTL = 0
    /\ _excel_cache = EmptyCache
    /\ _excel_timestamp = 0
    /\ _excel_mtime = None
    /\ book = <<>>
    /\ loadedAt = <<>>
    /\ last = NoCall
    /\ seen = NotSeen
    /\ steady = <<>>
    /\ resp = NoResp
    /\ thr = <<>>
    /\ arg \in EcomTables
    /\ ret = <<>>

BuildEcom ==
    /\ ret = <<>>
    /\ ret' = <<ecom_comparison(arg)>>
    /\ UNCHANGED HelperRest

NextEcom == BuildEcom

SpecEcom == InitEcom /\ [][NextEcom]_vars

\* The row is a December row
IsDecember(row) == Lower(Strip(row.Months)) \in {S_dec, S_december}

\* Row i is the first of the rows idx with the smallest, or largest, 2025 value
SmallestFirst(i, idx) ==
    /\ i \in idx
    /\ \A j \in idx : ~FloatLess(NumberOrZero(arg[j].v2025), NumberOrZero(arg[i].v2025))
    /\ \A j \in idx : j < i => NumberOrZero(arg[j].v2025) # NumberOrZero(arg[i].v2025)

LargestFirst(i, idx) ==
    /\ i \in idx
    /\ \A j \in idx : ~FloatLess(NumberOrZero(arg[i].v2025), NumberOrZero(arg[j].v2025))
    /\ \A j \in idx : j < i => NumberOrZero(arg[j].v2025) # NumberOrZero(arg[i].v2025)

MaxGroupRows == 3  \* rows of the grouped sheet

S_Q1 == <<"Q", "1">>
S_Q1_ == <<"Q", "1", " ">>
S_Q2 == <<"Q", "2">>
S_Insight == <<"I", "n", "s", "i", "g", "h", "t">>
S_insight == <<"i", "n", "s", "i", "g", "h", "t">>
S_Key_Insight == <<"K", "e", "y", " ", "I", "n", "s", "i", "g", "h", "t">>
S_key_insight == <<"k", "e", "y", " ", "i", "n", "s", "i", "g", "h", "t">>
S_Unassigned == <<"U", "n", "a", "s", "s", "i", "g", "n", "e", "d">>
S_General == <<"G", "e", "n", "e", "r", "a", "l">>

\* d.setdefault(k, []).append(e), putting e first instead of last
SetDefaultAppend_front(d, k, e) ==
    IF DictHas(d, k) THEN DictSet(d, k, <<e>> \o DictGet(d, k))
    ELSE Append(d, <<k, <<e>>>>)

\* d.setdefault(k, []).append(e)
SetDefaultAppend(d, k, e) ==
    IF DictHas(d, k) THEN DictSet(d, k, Append(DictGet(d, k), e))
    ELSE Append(d, <<k, <<e>>>>)

\* The loop of swot_page over rows i.. : sections and key_insights
RECURSIVE SwotLoop(_, _, _, _)
SwotLoop(rows, i, sections, key_insights) ==
    IF i > Len(rows) THEN [groups |-> sections, key_insights |-> key_insights]
    ELSE LET category == Strip(rows[i].cell)
         IN  IF category = <<>> THEN SwotLoop(rows, i + 1, sections, key_insights)
             ELSE IF Lower(category) = S_key_insight
             THEN SwotLoop(rows, i + 1, sections, Append(key_insights, rows[i].id))
             ELSE SwotLoop(rows, i + 1,
                           SetDefaultAppend(sections, category, rows[i].id), key_insights)

swot_page(rows) == SwotLoop(rows, 1, <<>>, <<>>)

\* The loop of roadmap_page over records i.. : quarters
RECURSIVE RoadmapLoop(_, _, _)
RoadmapLoop(records, i, quarters) ==
    IF i > Len(records) THEN quarters
    ELSE LET q == IF records[i].cell = <<>> THEN S_Unassigned ELSE records[i].cell
         IN  RoadmapLoop(records, i + 1, SetDefaultAppend(quarters, q, records[i].id))

roadmap_page(rows) ==
    LET quarters == RoadmapLoop(rows, 1, <<>>)
    IN  [groups |-> quarters, quarter_order |-> SortedTexts(Range(DictKeys(quarters)))]

\* The loop of strategy_plan over the rows i.. : pillars
RECURSIVE StrategyLoop(_, _, _)
StrategyLoop(rows, i, pillars) ==
    IF i > Len(rows) THEN pillars
    ELSE LET stripped == Strip(rows[i].cell)
             pillar == IF stripped = <<>> THEN S_General ELSE stripped
         IN  StrategyLoop(rows, i + 1, SetDefaultAppend(pillars, pillar, rows[i].id))

strategy_plan(rows) == [groups |-> StrategyLoop(rows, 1, <<>>)]

\* The loop of split_operations without the `continue` after an insight row
RECURSIVE SplitLoop_no_continue(_, _, _, _, _)
SplitLoop_no_continue(rows, i, insights, stages, status_counter) ==
    IF i > Len(rows)
    THEN [groups |-> stages, insights |-> insights, status_counter |-> status_counter]
    ELSE LET stage == Strip(rows[i].cell)
             status == Strip(rows[i].status)
             counted == IF status = <<>> THEN status_counter
                        ELSE DictSet(status_counter, status,
                                     IF DictHas(status_counter, status)
                                     THEN DictGet(status_counter, status) + 1 ELSE 1)
         IN  SplitLoop_no_continue(rows, i + 1,
                 IF Lower(stage) = S_insight THEN Append(insights, rows[i].id) ELSE insights,
                 SetDefaultAppend(stages,
                     IF stage = <<>> THEN S_Unassigned ELSE stage, rows[i].id),
                 counted)

\* The loop of split_operations over rows i.. : insights, stages and
\* status_counter (a Counter: status -> count, in insertion order)
RECURSIVE SplitLoop(_, _, _, _, _)
SplitLoop(rows, i, insights, stages, status_counter) ==
    IF i > Len(rows)
    THEN [groups |-> stages, insights |-> insights, status_counter |-> status_counter]
    ELSE LET stage == Strip(rows[i].cell)
             status == Strip(rows[i].status)
         IN  IF Lower(stage) = S_insight
             THEN SplitLoop(rows, i + 1, Append(insights, rows[i].id), stages, status_counter)
             ELSE SplitLoop(rows, i + 1, insights,
                            SetDefaultAppend(stages,
                                IF stage = <<>> THEN S_Unassigned ELSE stage, rows[i].id),
                            IF status = <<>> THEN status_counter
                            ELSE DictSet(status_counter, status,
                                         IF DictHas(status_counter, status)
                                         THEN DictGet(status_counter, status) + 1 ELSE 1))

split_operations(rows) == SplitLoop(rows, 1, <<>>, <<>>, <<>>)

GroupCells == {<<>>, S_Q1, S_Q1_, S_Q2, S_Insight, S_Key_Insight, S_Unassigned, S_General}

GroupTables ==
    UNION {{[i \in 1..n |-> [id |-> i, cell |-> c[i], status |-> <<>>]] : c \in [1..n -> GroupCells]} :
              n \in 0..MaxGroupRows}

InitGroup ==
    /\ _cache = <<>>
    /\ file = [exists |-> TRUE, mtime |-> 1, sheets |-> <<>>]
    /\ now = Epoch
    /\ SHEET_CACHE_TTL = 0
    /\ _excel_cache = EmptyCache
    /\ _excel_timestamp = 0
    /\ _excel_mtime = None
    /\ book = <<>>
    /\ loadedAt = <<>>
    /\ last = NoCall
    /\ seen = NotSeen
    /\ steady = <<>>
    /\ resp = NoResp
    /\ thr = <<>>
    /\ arg \in GroupTables
    /\ ret = <<>>

SwotPage ==
    /\ ret = <<>>
    /\ ret' = <<[fn |-> "swot_page", out |-> swot_page(arg)]>>
    /\ UNCHANGED HelperRest

RoadmapPage ==
    /\ ret = <<>>
    /\ ret' = <<[fn |-> "roadmap_page", out |-> roadmap_page(arg)]>>
    /\ UNCHANGED HelperRest

StrategyPlan ==
    /\ ret = <<>>
    /\ ret' = <<[fn |-> "strategy_plan", out |-> strategy_plan(arg)]>>
    /\ UNCHANGED HelperRest

SplitOperations ==
    /\ ret = <<>>
    /\ ret' = <<[fn |-> "split_operations", out |-> split_operations(arg)]>>
    /\ UNCHANGED HelperRest

NextGroup == SwotPage \/ RoadmapPage \/ StrategyPlan \/ SplitOperations

SpecGroup == InitGroup /\ [][NextGroup]_vars

\* The key a handler files a row under
GroupKey(fn, row) ==
    CASE fn = "swot_page" -> Strip(row.cell)
      [] fn = "roadmap_page" -> IF row.cell = <<>> THEN S_Unassigned ELSE row.cell
      [] fn = "strategy_plan" -> IF Strip(row.cell) = <<>> THEN S_General ELSE Strip(row.cell)
      [] OTHER -> IF Strip(row.cell) = <<>> THEN S_Unassigned ELSE Strip(row.cell)

\* The rows a handler files under a key at all: swot_page leaves out the rows
\* without a category and the key insights, split_operations the insights
Grouped(fn, row) ==
    CASE fn = "swot_page" -> Strip(row.cell) # <<>> /\ Lower(Strip(row.cell)) # S_key_insight
      [] fn = "split_operations" -> Lower(Strip(row.cell)) # S_insight
      [] OTHER -> TRUE

\* C18: in each grouping handler a group's list is exactly the rows with that
\* key in their original order, the keys are in first-encounter order, and
\* roadmap_page's quarter_order is the keys sorted.
C18_GroupsKeepRowOrder ==
    ret # <<>>
        => LET fn == ret[1].fn
               g == ret[1].out.groups
               filed == {i \in DOMAIN arg : Grouped(fn, arg[i])}
           IN  /\ \A a, b \in DOMAIN g : a # b => g[a][1] # g[b][1]
               /\ {g[a][1] : a \in DOMAIN g} = {GroupKey(fn, arg[i]) : i \in filed}
               /\ \A a \in DOMAIN g :
                      /\ Increasing(g[a][2])
                      /\ Range(g[a][2]) = {i \in filed : GroupKey(fn, arg[i]) = g[a][1]}
               /\ \A a, b \in DOMAIN g : a < b => g[a][2][1] < g[b][2][1]
               /\ fn = "roadmap_page" =>
                      LET order == ret[1].out.quarter_order
                      IN  /\ Len(order) = Len(g)
                          /\ Range(order) = {g[a][1] : a \in DOMAIN g}
                          /\ \A i, j \in DOMAIN order : i < j => TextLess(order[i], order[j])

\* C18 witness: roadmap_page on rows Q2, Q1, Q2 files rows 1 and 3 under Q2,
\* first, and row 2 under Q1, and lists Q1 before Q2 in quarter_order
C18_Witness ==
    /\ ret # <<>> /\ ret[1].fn = "roadmap_page"
    /\ Len(arg) = 3 /\ arg[1].cell = S_Q2 /\ arg[2].cell = S_Q1 /\ arg[3].cell = S_Q2
    /\ ret[1].out.groups = <<<<S_Q2, <<1, 3>>>>, <<S_Q1, <<2>>>>>>
    /\ ret[1].out.quarter_order = <<S_Q1, S_Q2>>

\* ---------------------------------------------------------------------------
\* app.py: top_product and top_product_promo, the renaming of the sheet's
\* columns to the template's fields.  "NBSP" stands for the character U+00A0.
\* ---------------------------------------------------------------------------

MaxColumns == 2    \* columns of the product sheet

\* The keywords of the rules
S_qty == <<"q", "t", "y">>
S_2025_qty == <<"2", "0", "2", "5", " ", "q", "t", "y">>
S_action == <<"a", "c", "t", "i", "o", "n">>
S_no == <<"n", "o">>
S_product == <<"p", "r", "o", "d", "u", "c", "t">>
S_sale == <<"s", "a", "l", "e">>
S_q1 == <<"q", "1">>
S_q2 == <<"q", "2">>
S_q3 == <<"q", "3">>
S_q4 == <<"q", "4">>
S_image == <<"i", "m", "a", "g", "e">>
S_image_url == <<"i", "m", "a", "g", "e", "_", "u", "r", "l">>

\* The template's fields
S_Current_Qty == <<"C", "u", "r", "r", "e", "n", "t", "_", "Q", "t", "y">>
S_Strategy_Focus == <<"S", "t", "r", "a", "t", "e", "g", "y", "_", "F", "o", "c", "u", "s">>
S_No == <<"N", "o">>
S_Product == <<"P", "r", "o", "d", "u", "c", "t">>
S_Sale_Total == <<"S", "a", "l", "e", "_", "T", "o", "t", "a", "l">>
S_Q1_Forecast == <<"Q", "1", "_", "F", "o", "r", "e", "c", "a", "s", "t">>
S_Q2_Forecast == <<"Q", "2", "_", "F", "o", "r", "e", "c", "a", "s", "t">>
S_Q3_Forecast == <<"Q", "3", "_", "F", "o", "r", "e", "c", "a", "s", "t">>
S_Q4_Forecast == <<"Q", "4", "_", "F", "o", "r", "e", "c", "a", "s", "t">>
S_Image_URL == <<"I", "m", "a", "g", "e", "_", "U", "R", "L">>

\* Column headers of the sheet
S_Qty == <<"Q", "t", "y">>
S_Sale_Qty == <<"S", "a", "l", "e", " ", "Q", "t", "y">>
S_Transaction == <<"T", "r", "a", "n", "s", "a", "c", "t", "i", "o", "n">>
S_No_tab == <<"N", "o", "\t">>
S_Notes == <<"N", "o", "t", "e", "s">>
S_Product__Name == <<"P", "r", "o", "d", "u", "c", "t", " ", " ", "N", "a", "m", "e">>
S_Product_Name == <<"P", "r", "o", "d", "u", "c", "t", " ", "N", "a", "m", "e">>
S_Sales == <<"S", "a", "l", "e", "s">>
S_Q1_Sale == <<"Q", "1", " ", "S", "a", "l", "e">>
S_Q3 == <<"Q", "3">>
S_Q4 == <<"Q", "4">>
S_nbsp_Image == <<"NBSP", "I", "m", "a", "g", "e">>
S_Image == <<"I", "m", "a", "g", "e">>
S_Other == <<"O", "t", "h", "e", "r">>

\* str.replace(old, new) for a one-character old
ReplaceChar(s, old, new) == [i \in DOMAIN s |-> IF s[i] = old THEN new ELSE s[i]]

\* str.replace("  ", " "): one pass, left to right
RECURSIVE ReplaceDoubleSpace(_)
ReplaceDoubleSpace(s) ==
    IF Len(s) >= 2 /\ s[1] = " " /\ s[2] = " "
    THEN <<" ">> \o ReplaceDoubleSpace(SubSeq(s, 3, Len(s)))
    ELSE IF s = <<>> THEN <<>>
    ELSE <<Head(s)>> \o ReplaceDoubleSpace(Tail(s))

\* The header normalisation of df.columns
NormalizeHeader(c) ==
    Strip(ReplaceDoubleSpace(ReplaceChar(ReplaceChar(c, "NBSP", " "), "\t", " ")))

\* The if/elif chain with the sale rule tried first
rename_field_sale_first(c) ==
    LET lc == Lower(c)
    IN  IF Contains(lc, S_sale) THEN S_Sale_Total
        ELSE IF Contains(lc, S_2025_qty) \/ Contains(lc, S_qty) THEN S_Current_Qty
        ELSE IF Contains(lc, S_insight) THEN S_Insight
        ELSE IF Contains(lc, S_action) THEN S_Strategy_Focus
        ELSE IF lc = S_no THEN S_No
        ELSE IF lc = S_product THEN S_Product
        ELSE IF Contains(lc, S_q1) THEN S_Q1_Forecast
        ELSE IF Contains(lc, S_q2) THEN S_Q2_Forecast
        ELSE IF Contains(lc, S_q3) THEN S_Q3_Forecast
        ELSE IF Contains(lc, S_q4) THEN S_Q4_Forecast
        ELSE IF Contains(lc, S_image_url) \/ Contains(lc, S_image) THEN S_Image_URL
        ELSE c

\* The if/elif chain filling rename_map: the name column c has after df.rename
rename_field(c) ==
    LET lc == Lower(c)
    IN  IF Contains(lc, S_2025_qty) \/ Contains(lc, S_qty) THEN S_Current_Qty
        ELSE IF Contains(lc, S_insight) THEN S_Insight
        ELSE IF Contains(lc, S_action) THEN S_Strategy_Focus
        ELSE IF lc = S_no THEN S_No
        ELSE IF lc = S_product THEN S_Product
        ELSE IF Contains(lc, S_sale) THEN S_Sale_Total
        ELSE IF Contains(lc, S_q1) THEN S_Q1_Forecast
        ELSE IF Contains(lc, S_q2) THEN S_Q2_Forecast
        ELSE IF Contains(lc, S_q3) THEN S_Q3_Forecast
        ELSE IF Contains(lc, S_q4) THEN S_Q4_Forecast
        ELSE IF Contains(lc, S_image_url) \/ Contains(lc, S_image) THEN S_Image_URL
        ELSE c

\* df.columns after the normalisation and df.rename(columns=rename_map)
RenamedColumns(columns) == [i \in DOMAIN columns |-> rename_field(NormalizeHeader(columns[i]))]

NumericFields ==
    <<S_Current_Qty, S_Sale_Total, S_Q1_Forecast, S_Q2_Forecast, S_Q3_Forecast, S_Q4_Forecast>>

RequiredFields ==
    <<S_No, S_Product, S_Current_Qty, S_Sale_Total, S_Insight, S_Strategy_Focus,
      S_Q1_Forecast, S_Q2_Forecast, S_Q3_Forecast, S_Q4_Forecast, S_Image_URL>>

\* df[col] is a DataFrame when two columns are named col, and then
\* numberish_to_float gets a Series, whose truth value raises ValueError
ConvertRaises(columns) ==
    \E k \in DOMAIN NumericFields :
        \E i, j \in DOMAIN columns :
            i # j /\ columns[i] = NumericFields[k] /\ columns[j] = NumericFields[k]

\* The required columns added at the end, in their order
RECURSIVE EnsureRequired(_, _)
EnsureRequired(columns, k) ==
    IF k > Len(RequiredFields) THEN columns
    ELSE EnsureRequired(IF RequiredFields[k] \in Range(columns) THEN columns
                        ELSE Append(columns, RequiredFields[k]), k + 1)

\* top_product / top_product_promo up to the rows handed to the template, on a
\* sheet with the given column headers: the columns as df.rename leaves them,
\* whether the conversion raised, and the fields of the rows rendered
top_product(sheet) ==
    IF sheet.empty
    THEN [renamed |-> sheet.columns, raised |-> FALSE, fields |-> <<>>]
    ELSE LET renamed == RenamedColumns(sheet.columns)
         IN  IF ConvertRaises(renamed)
             THEN [renamed |-> renamed, raised |-> TRUE, fields |-> <<>>]
             ELSE [renamed |-> renamed, raised |-> FALSE,
                   fields |-> EnsureRequired(renamed, 1)]

top_product_promo(sheet) == top_product(sheet)

Headers ==
    {S_Qty, S_Sale_Qty, S_Insight, S_Transaction, S_No, S_No_tab, S_Notes, S_Product,
     S_Product__Name, S_Product_Name, S_Sales, S_Q1_Sale, S_Q1, S_Q2, S_Q3, S_Q4,
     S_nbsp_Image, S_Image, S_Other}

\* The headers of a parsed sheet are distinct
ProductSheets ==
    [columns : {c \in UNION {[1..n -> Headers] : n \in 1..MaxColumns} :
                   \A i, j \in DOMAIN c : i # j => c[i] # c[j]},
     empty : BOOLEAN]

InitProduct ==
    /\ _cache = <<>>
    /\ file = [exists |-> TRUE, mtime |-> 1, sheets |-> <<>>]
    /\ now = Epoch
    /\ SHEET_CACHE_TTL = 0
    /\ _excel_cache = EmptyCache
    /\ _excel_timestamp = 0
    /\ _excel_mtime = None
    /\ book = <<>>
    /\ loadedAt = <<>>
    /\ last = NoCall
    /\ seen = NotSeen
    /\ steady = <<>>
    /\ resp = NoResp
    /\ thr = <<>>
    /\ arg \in ProductSheets
    /\ ret = <<>>

TopProduct ==
    /\ ret = <<>>
    /\ ret' = <<[fn |-> "top_product", out |-> top_product(arg)]>>
    /\ UNCHANGED HelperRest

TopProductPromo ==
    /\ ret = <<>>
    /\ ret' = <<[fn |-> "top_product_promo", out |-> top_product_promo(arg)]>>
    /\ UNCHANGED HelperRest

NextProduct == TopProduct \/ TopProductPromo

SpecProduct == InitProduct /\ [][NextProduct]_vars

\* The rules in their fixed order: the keyword, whether the name must equal it
\* or contain it, and the field
Rules ==
    <<[word |-> S_qty, exact |-> FALSE, field |-> S_Current_Qty],
      [word |-> S_insight, exact |-> FALSE, field |-> S_Insight],
      [word |-> S_action, exact |-> FALSE, field |-> S_Strategy_Focus],
      [word |-> S_no, exact |-> TRUE, field |-> S_No],
      [word |-> S_product, exact |-> TRUE, field |-> S_Product],
      [word |-> S_sale, exact |-> FALSE, field |-> S_Sale_Total],
      [word |-> S_q1, exact |-> FALSE, field |-> S_Q1_Forecast],
      [word |-> S_q2, exact |-> FALSE, field |-> S_Q2_Forecast],
      [word |-> S_q3, exact |-> FALSE, field |-> S_Q3_Forecast],
      [word |-> S_q4, exact |-> FALSE, field |-> S_Q4_Forecast],
      [word |-> S_image, exact |-> FALSE, field |-> S_Image_URL]>>

Satisfied(name, k) ==
    IF Rules[k].exact THEN Lower(name) = Rules[k].word
    ELSE Contains(Lower(name), Rules[k].word)

\* C19: on a sheet with rows, each column gets the field of the first rule its
\* lower-cased name satisfies, a column satisfying none keeps its name, and
\* columns satisfying rules for the same field all get that field.
C19_FirstRuleWins ==
    (ret # <<>> /\ ~arg.empty)
        => LET renamed == ret[1].out.renamed
           IN  /\ Len(renamed) = Len(arg.columns)
               /\ \A i \in DOMAIN arg.columns :
                      LET name == NormalizeHeader(arg.columns[i])
                          hits == {k \in DOMAIN Rules : Satisfied(name, k)}
                      IN  IF hits = {} THEN renamed[i] = name
                          ELSE renamed[i] =
                                   Rules[CHOOSE k \in hits : \A m \in hits : k <= m].field

\* C19 witness: "Sale Qty" and "Qty" are both renamed to Current_Qty
C19_Witness ==
    /\ ret # <<>> /\ ret[1].fn = "top_product" /\ ~arg.empty
    /\ arg.columns = <<S_Sale_Qty, S_Qty>>
    /\ ret[1].out.renamed = <<S_Current_Qty, S_Current_Qty>>

\* ---------------------------------------------------------------------------
\* app.py: a view handler invoked again and again.  profit_x edits the table it
\* got in place (columns added, cells cleaned, headers stripped); swot_page
\* only reads it.  Nothing in app.py outlives a request, so a page is decided
\* by the table sheet_to_df handed out.
\* ---------------------------------------------------------------------------

S_Profit_per_X == <<"P", "r", "o", "f", "i", "t", " ", "p", "e", "r", " ", "X">>

ViewHandlers == {h \in Handlers : h.route \in {"profit_x", "swot_page"}}

\* The handlers that assign into the table they received
EditsInPlace(route) == route = "profit_x"

\* Workbooks served to the views: one has no sheet for profit_x
ViewWorkbooks == {<<S_swot, S_Profit_per_X>>, <<S_swot>>}

\* Handler h on the outcome r of its sheet_to_df call: the page rendered from
\* the table (the empty table when the call raised), and the globals after the
\* handler's in-place edits, which reach the cache when the table is the
\* cached object
RunView(h, r) ==
    LET df == IF r.outcome = "ok" THEN r.result ELSE EmptyDF
        writes == EditsInPlace(h.route) /\ r.outcome = "ok" /\ r.same_object
    IN  [page |-> [route |-> h.route, df |-> df],
         g |-> IF writes
               THEN [r.g EXCEPT !.cache = CachePut(r.g.cache, r.sheet,
                                                   [df EXCEPT !.edited = TRUE])]
               ELSE r.g]

InitViews ==
    /\ _cache = <<>>
    /\ file \in [exists : {TRUE}, mtime : 1..MaxMtime, sheets : ViewWorkbooks]
    /\ now = Epoch
    /\ SHEET_CACHE_TTL \in TTLValues
    /\ _excel_cache = EmptyCache
    /\ _excel_timestamp = 0
    /\ _excel_mtime = None
    /\ book = <<>>
    /\ loadedAt = <<>>
    /\ last = NoCall
    /\ seen = NotSeen
    /\ steady = <<>>
    /\ resp = NoResp
    /\ thr = <<>>
    /\ arg = <<>>
    /\ ret = <<>>

\* One request to a view handler
View ==
    \E h \in ViewHandlers :
    \E r \in {SheetToDf(Globals, file, now, SHEET_CACHE_TTL, h.sheets[1], 0)} :
    \E v \in {RunView(h, r)} :
        /\ SetGlobals(v.g)
        /\ resp' = [route |-> h.route, status |-> "rendered",
                     empty |-> v.page.df = EmptyDF, page |-> v.page]
        /\ steady' = IF steady = <<>> THEN <<[x \in {h.route} |-> v.page]>>
                      ELSE IF h.route \in DOMAIN steady[1] THEN steady
                      ELSE <<[x \in (DOMAIN steady[1]) \cup {h.route} |->
                                 IF x = h.route THEN v.page ELSE steady[1][x]]>>
        /\ UNCHANGED <<_cache, thr, arg, ret, file, now, SHEET_CACHE_TTL, last, seen>>

NextViews == View \/ FileChange \/ FileToggle \/ Tick

SpecViews == InitViews /\ [][NextViews]_vars

\* C20: a handler invoked again while the workbook has not been touched gives
\* the page it gave before, and no table in the cache carries a handler's
\* in-place edits.
C20_ViewsIdempotent ==
    /\ (resp.route # "none" /\ steady # <<>> /\ resp.route \in DOMAIN steady[1])
           => resp.page = steady[1][resp.route]
    /\ \A t \in DOMAIN _excel_cache : ~_excel_cache[t].edited

\* ---------------------------------------------------------------------------
\* services/google_sheets.py: what the tables handed out and cached hold
\* ---------------------------------------------------------------------------

\* C21: no table in the cache and no table returned by sheet_to_df holds a
\* missing-value marker; an empty cell is the empty string.
C21_NoMissingMarker ==
    /\ \A t \in DOMAIN _excel_cache : NaN \notin Range(_excel_cache[t].cells)
    /\ NaN \notin Range(last.result.cells)

\* C21 witness: a call returned a sheet whose workbook row has an empty cell,
\* and the table has "" there
C21_Witness ==
    /\ Called /\ last.outcome = "ok" /\ last.result # EmptyDF
    /\ \E i \in DOMAIN last.result.cells :
           /\ SheetCells(last.result.ver)[i] = NaN
           /\ last.result.cells[i] = <<>>

\* C22: the column names of every table sheet_to_df returns are normalized:
\* stripped, with no non-breaking space, tab or double space left.
C22_ColumnsNormalizedOnLoad ==
    \A i \in DOMAIN last.result.columns :
        NormalizeHeader(last.result.columns[i]) = last.result.columns[i]

\* C23: under any interleaving of requests and file changes, every table in
\* _excel_cache was parsed from the workbook the most recent reload opened.
C23_CacheFromLatestWorkbook ==
    book # <<>> => \A t \in DOMAIN _excel_cache : _excel_cache[t].ver = book[1].ver

\* The previous call raised on the missing file with tables in the cache, and
\* the file is back with the modification time recorded
BackAfterMissing ==
    /\ last.outcome = "FileNotFoundError" /\ ~last.fexists
    /\ DOMAIN _excel_cache # {}
    /\ file.exists /\ _excel_mtime = <<file.mtime>>

\* No more than SHEET_CACHE_TTL seconds have passed since the workbook was
\* last opened (no TTL at all when it is not positive)
WithinTTL == SHEET_CACHE_TTL <= 0 \/ now - loadedAt[1] <= SHEET_CACHE_TTL

\* C24: a call that finds tables in the cache and no file raises
\* FileNotFoundError and leaves _excel_cache, _excel_mtime and
\* _excel_timestamp as they were; when the file is back with the recorded
\* modification time and the TTL has not expired, the next call is served from
\* the retained cache without a reload.
C24_MissingFileLeavesGlobals ==
    [][\A rq \in Requests :
          sheet_to_df(rq[1], rq[2])
          => /\ (DOMAIN _excel_cache # {} /\ ~file.exists)
                    => /\ last'.outcome = "FileNotFoundError"
                       /\ UNCHANGED <<_excel_cache, _excel_mtime, _excel_timestamp>>
             /\ (BackAfterMissing /\ WithinTTL)
                    => /\ last'.outcome = "ok" /\ ~last'.reloaded
                       /\ \A t \in DOMAIN _excel_cache :
                              /\ t \in DOMAIN _excel_cache'
                              /\ _excel_cache'[t] = _excel_cache[t]]_vars

\* ---------------------------------------------------------------------------
\* services/google_sheets.py: the keys of _excel_cache, over named requests
\* while the workbook is replaced by one with other sheet titles
\* ---------------------------------------------------------------------------

S_2026_okr == <<"2", "0", "2", "6", " ", "o", "k", "r">>

\* A logical name, its alias target, a case variant of that title, a title in
\* another case, and a name of no sheet
TitleRequests == {S_okr, S_2026_OKR, S_2026_okr, S_Swot, S_missing_name}

CallTitle == \E name \in TitleRequests : sheet_to_df(name, 0)

\* The workbook file is replaced by another one, with its own sheets
FileReplace ==
    /\ file.exists
    /\ \E m \in (1..MaxMtime) \ {file.mtime}, w \in Workbooks :
           file' = [file EXCEPT !.mtime = m, !.sheets = w]
    /\ steady' = <<>>
    /\ UNCHANGED <<_cache, thr, arg, ret, now, SHEET_CACHE_TTL, _excel_cache, _excel_timestamp,
                   _excel_mtime, book, loadedAt, last, seen, resp>>

InitTitles ==
    /\ _cache = <<>>
    /\ file \in [exists : {TRUE}, mtime : 1..MaxMtime, sheets : Workbooks]
    /\ now = Epoch
    /\ SHEET_CACHE_TTL \in TTLValues
    /\ _excel_cache = EmptyCache
    /\ _excel_timestamp = 0
    /\ _excel_mtime = None
    /\ book = <<>>
    /\ loadedAt = <<>>
    /\ last = NoCall
    /\ seen = NotSeen
    /\ steady = <<>>
    /\ resp = NoResp
    /\ thr = <<>>
    /\ arg = <<>>
    /\ ret = <<>>

NextTitles == CallTitle \/ FileReplace \/ Tick

SpecTitles == InitTitles /\ [][NextTitles]_vars

\* C25: every key of _excel_cache is a sheet title of the workbook currently
\* open; a call whose name does not resolve adds no entry; a call for the
\* logical name okr, for its alias target or for a case variant of that title
\* adds nothing but the entry keyed by the actual title.  (last is the call of
\* the step when the step is a call, and the cache does not change otherwise.)
C25_KeysAreTitles ==
    [][/\ book' # <<>> => DOMAIN _excel_cache' \subseteq Range(book'[1].sheet_names)
       /\ last'.result = EmptyDF => DOMAIN _excel_cache' \subseteq DOMAIN _excel_cache
       /\ (/\ last'.outcome = "ok"
           /\ last'.name \in {S_okr, S_2026_OKR, S_2026_okr}
           /\ S_2026_OKR \in Range(book'[1].sheet_names))
              => /\ last'.result.sheet = S_2026_OKR
                 /\ S_2026_OKR \in DOMAIN _excel_cache'
                 /\ DOMAIN _excel_cache' \subseteq DOMAIN _excel_cache \cup {S_2026_OKR}]_vars

\* C25 witness: a case variant of the alias target was served from the one
\* entry, keyed by the title, that an earlier request stored
C25_Witness ==
    /\ last.name = S_2026_okr /\ last.outcome = "ok" /\ last.hit
    /\ last.result.sheet = S_2026_OKR
    /\ DOMAIN _excel_cache = {S_2026_OKR}

\* The nodes reached from the nodes in from through children links
RECURSIVE ReachedFrom(_, _)
ReachedFrom(o, from) ==
    LET more == from \cup UNION {Range(o.children[n]) : n \in from}
    IN  IF more = from THEN from ELSE ReachedFrom(o, more)

\* How often node n is listed, among root_nodes and all children lists
TimesListed(o, n) ==
    Cardinality({i \in DOMAIN o.root_nodes : o.root_nodes[i] = n})
        + Cardinality({<<p, i>> \in UNION {{p} \X DOMAIN o.children[p] : p \in Range(o.names)} :
                          o.children[p][i] = n})

\* C26: the org chart is a forest covering the input: one node per row, every
\* node reachable from root_nodes through children, and listed exactly once.
C26_ForestCoversInput ==
    ret # <<>>
        => /\ Len(ret[1].names) = Len(arg)
           /\ ReachedFrom(ret[1], Range(ret[1].root_nodes)) = Range(ret[1].names)
           /\ \A n \in Range(ret[1].names) : TimesListed(ret[1], n) = 1

\* ---------------------------------------------------------------------------
\* app.py: split_operations on rows with a Funnel Stage (cell) and a Status
\* ---------------------------------------------------------------------------

MaxOpsRows == 3    \* rows of the operation_health sheet

OpsCells == [cell : {<<>>, S_Insight, S_Q1}, status : {<<>>, S_blank, S_A, S_B}]

\* The sheets of n rows
OpsTables(n) ==
    {[i \in 1..n |-> [id |-> i, cell |-> c[i].cell, status |-> c[i].status]] :
        c \in [1..n -> OpsCells]}

InitOps ==
    /\ _cache = <<>>
    /\ file = [exists |-> TRUE, mtime |-> 1, sheets |-> <<>>]
    /\ now = Epoch
    /\ SHEET_CACHE_TTL = 0
    /\ _excel_cache = EmptyCache
    /\ _excel_timestamp = 0
    /\ _excel_mtime = None
    /\ book = <<>>
    /\ loadedAt = <<>>
    /\ last = NoCall
    /\ seen = NotSeen
    /\ steady = <<>>
    /\ resp = NoResp
    /\ thr = <<>>
    /\ \E n \in 0..MaxOpsRows : arg \in OpsTables(n)
    /\ ret = <<>>

SplitOps ==
    /\ ret = <<>>
    /\ ret' = <<split_operations(arg)>>
    /\ UNCHANGED HelperRest

NextOps == SplitOps

SpecOps == InitOps /\ [][NextOps]_vars

RECURSIVE SumCounts(_)
SumCounts(d) == IF d = <<>> THEN 0 ELSE Head(d)[2] + SumCounts(Tail(d))

RECURSIVE SumSizes(_)
SumSizes(d) == IF d = <<>> THEN 0 ELSE Len(Head(d)[2]) + SumSizes(Tail(d))

IsInsight(row) == Lower(Strip(row.cell)) = S_insight

\* The number of places row id is filed in: the insights list and the groups
TimesFiled(o, id) ==
    Cardinality({i \in DOMAIN o.insights : o.insights[i] = id})
        + Cardinality({<<g, i>> \in UNION {{g} \X DOMAIN o.groups[g][2] : g \in DOMAIN o.groups} :
                          o.groups[g][2][i] = id})

\* C27: split_operations partitions the rows: every row is filed exactly once,
\* in insights when its stage is 'insight' in any case and else in one stage
\* group (Unassigned for a blank stage), so the sizes add up to the number of
\* rows; the status counts add up to the rows outside insights that have a
\* Status (blank counts as none).
C27_SplitPartitions ==
    ret # <<>>
        => LET o == ret[1]
           IN  /\ \A i \in DOMAIN arg : TimesFiled(o, arg[i].id) = 1
               /\ Range(o.insights) = {arg[i].id : i \in {k \in DOMAIN arg : IsInsight(arg[k])}}
               /\ \A i \in DOMAIN arg :
                      (Strip(arg[i].cell) = <<>>)
                          => /\ DictHas(o.groups, S_Unassigned)
                             /\ arg[i].id \in Range(DictGet(o.groups, S_Unassigned))
               /\ Len(o.insights) + SumSizes(o.groups) = Len(arg)
               /\ SumCounts(o.status_counter)
                      = Cardinality({i \in DOMAIN arg :
                                        ~IsInsight(arg[i]) /\ Strip(arg[i].status) # <<>>})

\* C27 witness: an insight row with a status, a blank-stage row and a staged
\* row, two of them counted under one status
C27_Witness ==
    /\ ret # <<>> /\ Len(arg) = 3
    /\ arg[1].cell = S_Insight /\ arg[1].status = S_A
    /\ arg[2].cell = <<>> /\ arg[2].status = S_A
    /\ arg[3].cell = S_Q1 /\ arg[3].status = S_A
    /\ ret[1].insights = <<1>>
    /\ ret[1].groups = <<<<S_Unassigned, <<2>>>>, <<S_Q1, <<3>>>>>>
    /\ ret[1].status_counter = <<<<S_A, 2>>>>

\* ---------------------------------------------------------------------------
\* app.py: top_product, the offers of the three_offer sheet by product
\* ---------------------------------------------------------------------------

MaxOfferRows == 4    \* rows of the three_offer sheet

S_a_ == <<"a", " ">>
S_Offer == <<"O", "f", "f", "e", "r">>
S_Offer_details_coming_soon ==
    <<"O", "f", "f", "e", "r", " ", "d", "e", "t", "a", "i", "l", "s", " ",
      "c", "o", "m", "i", "n", "g", " ", "s", "o", "o", "n">>

normalize_name(name) == Lower(Strip(name))

\* product_offers[:3] without the slice
FirstThree_all(product_offers) == product_offers

\* product_offers[:3]
FirstThree(product_offers) ==
    SubSeq(product_offers, 1, IF Len(product_offers) < 3 THEN Len(product_offers) ELSE 3)

\* The iterrows loop over rows i.. ; an offer carries the id of its row
RECURSIVE OffersLoop(_, _, _)
OffersLoop(rows, i, by_product) ==
    IF i > Len(rows) THEN by_product
    ELSE LET product_name == Strip(rows[i].Product)
             offer_text == Strip(rows[i].Offer)
         IN  IF product_name = <<>>
             THEN OffersLoop(rows, i + 1, by_product)
             ELSE OffersLoop(rows, i + 1,
                      SetDefaultAppend(by_product, normalize_name(product_name),
                          [id |-> rows[i].id,
                           title |-> IF offer_text = <<>> THEN S_Offer_details_coming_soon
                                     ELSE offer_text,
                           img |-> <<>>,
                           label |-> S_Offer]))

\* offers_by_product of top_product; sheet.loaded is FALSE when sheet_to_df
\* raised, and a sheet without rows is skipped as empty
offers_by_product(sheet) ==
    IF ~sheet.loaded \/ sheet.rows = <<>> THEN <<>>
    ELSE LET d == OffersLoop(sheet.rows, 1, <<>>)
         IN  [k \in DOMAIN d |-> <<d[k][1], FirstThree(d[k][2])>>]

OfferCells == [Product : {<<>>, S_blank, S_A, S_a_, S_B}, Offer : {<<>>, S_x}]

\* The three_offer sheets of n rows, with the columns Product and Offer; the
\* handler fills the absent Offer_Product and Photo_URL with ""
OfferRows(n) ==
    {[i \in 1..n |-> [id |-> i, Product |-> c[i].Product, Offer |-> c[i].Offer]] :
        c \in [1..n -> OfferCells]}

InitOffers ==
    /\ _cache = <<>>
    /\ file = [exists |-> TRUE, mtime |-> 1, sheets |-> <<>>]
    /\ now = Epoch
    /\ SHEET_CACHE_TTL = 0
    /\ _excel_cache = EmptyCache
    /\ _excel_timestamp = 0
    /\ _excel_mtime = None
    /\ book = <<>>
    /\ loadedAt = <<>>
    /\ last = NoCall
    /\ seen = NotSeen
    /\ steady = <<>>
    /\ resp = NoResp
    /\ thr = <<>>
    /\ \/ arg = [loaded |-> FALSE, rows |-> <<>>]
       \/ \E n \in 0..MaxOfferRows : \E rows \in OfferRows(n) :
              arg = [loaded |-> TRUE, rows |-> rows]
    /\ ret = <<>>

TopProductOffers ==
    /\ ret = <<>>
    /\ ret' = <<offers_by_product(arg)>>
    /\ UNCHANGED HelperRest

NextOffers == TopProductOffers

SpecOffers == InitOffers /\ [][NextOffers]_vars

\* The ids of the rows whose product name, trimmed and lower-cased, is key
RowsOfProduct(rows, key) ==
    LET of == SelectSeq(rows, LAMBDA r : Strip(r.Product) # <<>> /\ Lower(Strip(r.Product)) = key)
    IN  [i \in DOMAIN of |-> of[i].id]

\* C28: offers_by_product has one key per product name, trimmed and
\* lower-cased; under each key at most three offers, those of the first three
\* rows of that product in sheet order; rows with a blank Product are under
\* no key.
C28_FirstThreeOffersPerProduct ==
    ret # <<>>
        => LET d == ret[1]
           IN  /\ \A i, j \in DOMAIN d : d[i][1] = d[j][1] => i = j
               /\ Range(DictKeys(d))
                      = {Lower(Strip(arg.rows[i].Product)) :
                            i \in {k \in DOMAIN arg.rows : Strip(arg.rows[k].Product) # <<>>}}
               /\ \A k \in DOMAIN d :
                      LET ids == [i \in DOMAIN d[k][2] |-> d[k][2][i].id]
                          all == RowsOfProduct(arg.rows, d[k][1])
                      IN  /\ Len(ids) \in 1..3
                          /\ ids = SubSeq(all, 1, IF Len(all) < 3 THEN Len(all) ELSE 3)
               /\ \A i \in DOMAIN arg.rows :
                      Strip(arg.rows[i].Product) = <<>>
                          => \A k \in DOMAIN d :
                                 \A e \in DOMAIN d[k][2] : d[k][2][e].id # arg.rows[i].id

\* C28 witness: four rows of one product under two spellings; the fourth
\* offer is left out
C28_Witness ==
    /\ ret # <<>> /\ arg.loaded /\ Len(arg.rows) = 4
    /\ arg.rows[1].Product = S_A /\ arg.rows[2].Product = S_a_
    /\ arg.rows[3].Product = S_A /\ arg.rows[4].Product = S_A
    /\ Len(ret[1]) = 1
    /\ ret[1][1][1] = <<"a">>
    /\ Len(ret[1][1][2]) = 3
    /\ [i \in 1..3 |-> ret[1][1][2][i].id] = <<1, 2, 3>>

\* ---------------------------------------------------------------------------
\* app.py: dna_page, the rows of the dna sheet by section, sorted by Point_ID
\* ---------------------------------------------------------------------------

MaxDnaRows == 3    \* rows of the dna sheet

S_I_Core_Values == <<"I", ".", " ", "C", "o", "r", "e", " ", "V", "a", "l", "u", "e", "s">>
S_II_Hygiene_Factors == <<"I", "I", ".", " ", "H", "y", "g", "i", "e", "n", "e", " ", "F", "a", "c", "t", "o", "r", "s">>
S_III_Motivation_Factors == <<"I", "I", "I", ".", " ", "M", "o", "t", "i", "v", "a", "t", "i", "o", "n", " ", "F", "a", "c", "t", "o", "r", "s">>
S_Strategic_Insight == <<"S", "t", "r", "a", "t", "e", "g", "i", "c", " ", "I", "n", "s", "i", "g", "h", "t">>
S_core_values == <<"c", "o", "r", "e", " ", "v", "a", "l", "u", "e", "s">>
S_hygiene_factors == <<"h", "y", "g", "i", "e", "n", "e", " ", "f", "a", "c", "t", "o", "r", "s">>
S_motivation_factors == <<"m", "o", "t", "i", "v", "a", "t", "i", "o", "n", " ", "f", "a", "c", "t", "o", "r", "s">>
S_strategic_insight == <<"s", "t", "r", "a", "t", "e", "g", "i", "c", " ", "i", "n", "s", "i", "g", "h", "t">>
S_Core_Values == <<"C", "o", "r", "e", " ", "V", "a", "l", "u", "e", "s">>
S_hygiene_factors_ == <<"h", "y", "g", "i", "e", "n", "e", " ", "f", "a", "c", "t", "o", "r", "s", " ">>
S_V2 == <<"V", "2">>
S_V10 == <<"V", "1", "0">>
S_H1 == <<"H", "1">>
S_M1 == <<"M", "1">>
S_X1 == <<"X", "1">>

area_to_section ==
    <<<<S_core_values, S_I_Core_Values>>,
      <<S_hygiene_factors, S_II_Hygiene_Factors>>,
      <<S_motivation_factors, S_III_Motivation_Factors>>,
      <<S_strategic_insight, S_Strategic_Insight>>>>

\* The sections before the loop, in the order of the dict literal
EmptySections ==
    <<<<S_I_Core_Values, <<>>>>, <<S_II_Hygiene_Factors, <<>>>>,
      <<S_III_Motivation_Factors, <<>>>>, <<S_Strategic_Insight, <<>>>>>>

\* text.isdigit()
IsDigit(text) == text # <<>> /\ \A i \in DOMAIN text : text[i] \in DigitChars

\* int(text) of a text of digits
RECURSIVE IntOfDigits(_)
IntOfDigits(text) ==
    IF text = <<>> THEN 0
    ELSE 10 * IntOfDigits(SubSeq(text, 1, Len(text) - 1))
             + (CHOOSE d \in 0..9 : Digits[d + 1] = text[Len(text)])

\* int(pid[1:]) if pid[1:].isdigit() else 0
SuffixNumber(pid) == IF IsDigit(Tail(pid)) THEN IntOfDigits(Tail(pid)) ELSE 0

\* sort_key with every id in the class of the others
sort_key_text(item) == [cls |-> 3, num |-> 0, text |-> item.Point_ID]

\* sort_key: the tuple (cls, num) of a V, H or M id, (3, pid) of any other
sort_key(item) ==
    LET pid == item.Point_ID
    IN  IF pid # <<>> /\ Head(pid) = "V" THEN [cls |-> 0, num |-> SuffixNumber(pid), text |-> <<>>]
        ELSE IF pid # <<>> /\ Head(pid) = "H" THEN [cls |-> 1, num |-> SuffixNumber(pid), text |-> <<>>]
        ELSE IF pid # <<>> /\ Head(pid) = "M" THEN [cls |-> 2, num |-> SuffixNumber(pid), text |-> <<>>]
        ELSE [cls |-> 3, num |-> 0, text |-> pid]

\* a < b for two keys, as tuples compare
KeyLess(a, b) ==
    \/ a.cls < b.cls
    \/ a.cls = b.cls /\ a.num < b.num
    \/ a.cls = b.cls /\ a.num = b.num /\ TextLess(a.text, b.text)

\* list.sort(key=sort_key): a stable sort, each item going behind the items
\* whose key is not greater
RECURSIVE SortByKey(_)
SortByKey(items) ==
    IF items = <<>> THEN <<>>
    ELSE LET done == SortByKey(SubSeq(items, 1, Len(items) - 1))
             item == items[Len(items)]
             n == Cardinality({i \in DOMAIN done : ~KeyLess(sort_key(item), sort_key(done[i]))})
         IN  SubSeq(done, 1, n) \o <<item>> \o SubSeq(done, n + 1, Len(done))

\* The loop of dna_page over rows i.. ; Key_Item and the cleaned texts travel
\* with the row and are named by its id
RECURSIVE DnaLoop(_, _, _)
DnaLoop(rows, i, sections) ==
    IF i > Len(rows) THEN sections
    ELSE LET content_area == Strip(rows[i].Content_Area)
             section_key == Lower(content_area)
         IN  IF DictHas(area_to_section, section_key)
             THEN DnaLoop(rows, i + 1,
                      SetDefaultAppend(sections, DictGet(area_to_section, section_key),
                          [id |-> rows[i].id, Point_ID |-> rows[i].Point_ID,
                           type |-> content_area]))
             ELSE DnaLoop(rows, i + 1, sections)

dna_page(rows) ==
    LET sections == DnaLoop(rows, 1, EmptySections)
    IN  [s \in DOMAIN sections |-> <<sections[s][1], SortByKey(sections[s][2])>>]

DnaCells ==
    [Content_Area : {S_Core_Values, S_hygiene_factors_, S_Other},
     Point_ID : {S_V2, S_V10, S_H1, S_M1, S_X1}]

\* The dna sheets of n rows
DnaRows(n) ==
    {[i \in 1..n |-> [id |-> i, Content_Area |-> c[i].Content_Area, Point_ID |-> c[i].Point_ID]] :
        c \in [1..n -> DnaCells]}

InitDna ==
    /\ _cache = <<>>
    /\ file = [exists |-> TRUE, mtime |-> 1, sheets |-> <<>>]
    /\ now = Epoch
    /\ SHEET_CACHE_TTL = 0
    /\ _excel_cache = EmptyCache
    /\ _excel_timestamp = 0
    /\ _excel_mtime = None
    /\ book = <<>>
    /\ loadedAt = <<>>
    /\ last = NoCall
    /\ seen = NotSeen
    /\ steady = <<>>
    /\ resp = NoResp
    /\ thr = <<>>
    /\ \E n \in 0..MaxDnaRows : arg \in DnaRows(n)
    /\ ret = <<>>

DnaPage ==
    /\ ret = <<>>
    /\ ret' = <<dna_page(arg)>>
    /\ UNCHANGED HelperRest

NextDna == DnaPage

SpecDna == InitDna /\ [][NextDna]_vars

\* The letter class of a Point_ID: 0 for V, 1 for H, 2 for M, 3 for the others
LetterClass(pid) ==
    IF pid = <<>> THEN 3
    ELSE IF Head(pid) = "V" THEN 0 ELSE IF Head(pid) = "H" THEN 1
    ELSE IF Head(pid) = "M" THEN 2 ELSE 3

\* The number a Point_ID ends in (0 when it ends in none)
NumericSuffix(pid) ==
    IF pid # <<>> /\ IsDigit(Tail(pid)) THEN IntOfDigits(Tail(pid)) ELSE 0

\* The section a Content_Area names in any case, <<>> when it names none
SectionOf(area) ==
    LET hit == {k \in DOMAIN area_to_section : area_to_section[k][1] = Lower(Strip(area))}
    IN  IF hit = {} THEN <<>> ELSE area_to_section[CHOOSE k \in hit : TRUE][2]

\* C29: dna_page keeps the four fixed sections; a row is in the one section its
\* Content_Area names in any case and in no other, a row naming none is in no
\* section; within a section the V ids come first, then H, then M, then the
\* others, a letter class is in the order of the numeric suffix, and items of
\* equal class and suffix (equal id for the others) keep the source order.
C29_SectionsSortedByPointId ==
    ret # <<>>
        => LET sections == ret[1]
           IN  /\ DictKeys(sections) = DictKeys(EmptySections)
               /\ \A s \in DOMAIN sections :
                      \A i, j \in DOMAIN sections[s][2] :
                          i # j => sections[s][2][i].id # sections[s][2][j].id
               /\ \A s \in DOMAIN sections :
                      {sections[s][2][i].id : i \in DOMAIN sections[s][2]}
                          = {arg[i].id : i \in {k \in DOMAIN arg :
                                                   SectionOf(arg[k].Content_Area) = sections[s][1]}}
               /\ \A s \in DOMAIN sections :
                      \A i, j \in DOMAIN sections[s][2] :
                          i < j =>
                              LET a == sections[s][2][i]
                                  b == sections[s][2][j]
                              IN  /\ a.Point_ID = arg[a.id].Point_ID
                                  /\ LetterClass(a.Point_ID) <= LetterClass(b.Point_ID)
                                  /\ (LetterClass(a.Point_ID) = LetterClass(b.Point_ID)
                                          /\ LetterClass(a.Point_ID) < 3)
                                         => NumericSuffix(a.Point_ID) <= NumericSuffix(b.Point_ID)
                                  /\ (LetterClass(a.Point_ID) = LetterClass(b.Point_ID)
                                          /\ NumericSuffix(a.Point_ID) = NumericSuffix(b.Point_ID)
                                          /\ (LetterClass(a.Point_ID) = 3 => a.Point_ID = b.Point_ID))
                                         => a.id < b.id

\* C29 witness: V10, V2 and a second V10 in one section; V2 is moved to the
\* front of V10 and the two V10 keep their order
C29_Witness ==
    /\ ret # <<>> /\ Len(arg) = 3
    /\ arg[1].Point_ID = S_V10 /\ arg[2].Point_ID = S_V2 /\ arg[3].Point_ID = S_V10
    /\ \A i \in 1..3 : arg[i].Content_Area = S_Core_Values
    /\ [i \in 1..3 |-> ret[1][1][2][i].id] = <<2, 1, 3>>

\* ---------------------------------------------------------------------------
\* services/data_loader.py: DataLoader.get_sheet_df
\* ---------------------------------------------------------------------------

\* The names asked of get_sheet_df: two titles, two case variants, no sheet
LoaderRequests == {S_swot, S_Swot, S_2026_okr, S_missing_name}

\* Before the first get_sheet_df call
NoLoaderCall == [name |-> None, outcome |-> "none", result |-> EmptyDF,
                 opened |-> FALSE, added |-> FALSE, again |-> FALSE]

\* pd.ExcelFile(self.path)
ExcelFile(f) == [ver |-> f.mtime, sheet_names |-> f.sheets]

\* The title get_sheet_df reads for sheet_name in workbook xl, None when it
\* raises ValueError
LoaderTitle(xl, sheet_name) ==
    IF sheet_name \in Range(xl.sheet_names) THEN sheet_name
    ELSE LoweredGet(xl.sheet_names, Lower(sheet_name))

\* get_sheet_df(sheet_name).  last records the call: whether it opened the
\* workbook, whether it added an entry to _cache, and whether a call with this
\* argument had returned a table before; seen holds the arguments that have.
get_sheet_df(sheet_name) ==
    /\ IF DictHas(_cache, sheet_name)
       THEN /\ last' = [name |-> sheet_name, outcome |-> "ok",
                        result |-> DictGet(_cache, sheet_name),
                        opened |-> FALSE, added |-> FALSE, again |-> sheet_name \in seen]
            /\ seen' = seen \cup {sheet_name}
            /\ UNCHANGED _cache
       ELSE IF ~file.exists
       THEN /\ last' = [name |-> sheet_name, outcome |-> "FileNotFoundError",
                        result |-> EmptyDF,
                        opened |-> FALSE, added |-> FALSE, again |-> sheet_name \in seen]
            /\ UNCHANGED <<seen, _cache>>
       ELSE \E xl \in {ExcelFile(file)} :
            \E title \in {LoaderTitle(xl, sheet_name)} :
                IF title = None
                THEN /\ last' = [name |-> sheet_name, outcome |-> "ValueError",
                                 result |-> EmptyDF,
                                 opened |-> TRUE, added |-> FALSE, again |-> sheet_name \in seen]
                     /\ UNCHANGED <<seen, _cache>>
                ELSE /\ _cache' = DictSet(_cache, title, Parse(xl, title))
                     /\ last' = [name |-> sheet_name, outcome |-> "ok",
                                 result |-> Parse(xl, title),
                                 opened |-> TRUE, added |-> ~DictHas(_cache, title),
                                 again |-> sheet_name \in seen]
                     /\ seen' = seen \cup {sheet_name}
    /\ UNCHANGED <<file, now, SHEET_CACHE_TTL, _excel_cache, _excel_timestamp, _excel_mtime,
                   book, loadedAt, steady, resp, thr, arg, ret>>

GetSheetDf == \E sheet_name \in LoaderRequests : get_sheet_df(sheet_name)

\* The workbook file is replaced by another one; the DataLoader is kept
LoaderFileReplace ==
    /\ \E m \in (1..MaxMtime) \ {file.mtime}, w \in Workbooks :
           file' = [file EXCEPT !.mtime = m, !.sheets = w]
    /\ UNCHANGED <<now, SHEET_CACHE_TTL, _excel_cache, _excel_timestamp, _excel_mtime,
                   book, loadedAt, last, seen, steady, resp, thr, arg, ret, _cache>>

InitLoader ==
    /\ _cache = <<>>
    /\ file \in [exists : {TRUE}, mtime : 1..MaxMtime, sheets : Workbooks]
    /\ now = Epoch
    /\ SHEET_CACHE_TTL = 0
    /\ _excel_cache = EmptyCache
    /\ _excel_timestamp = 0
    /\ _excel_mtime = None
    /\ book = <<>>
    /\ loadedAt = <<>>
    /\ last = NoLoaderCall
    /\ seen = {}
    /\ steady = <<>>
    /\ resp = NoResp
    /\ thr = <<>>
    /\ arg = <<>>
    /\ ret = <<>>

NextLoader == GetSheetDf \/ LoaderFileReplace

SpecLoader == InitLoader /\ [][NextLoader]_vars

\* C30: a get_sheet_df call whose argument has returned a table before is
\* served from _cache without opening the workbook, also when the argument
\* matched a title only in another case; a call that raises ValueError names
\* no sheet of the workbook and adds nothing to _cache.
C30_LaterCallsServedFromCache ==
    /\ last.again => last.outcome = "ok" /\ ~last.opened
    /\ last.outcome = "ValueError" => ~last.added

\* A get_sheet_df call that raises ValueError was given a name matching no
\* title of the workbook in any case, and leaves _cache as it was
C30_ValueErrorAddsNothing ==
    [][(last' # last /\ last'.outcome = "ValueError")
           => /\ _cache' = _cache
              /\ \A i \in DOMAIN file.sheets : Lower(file.sheets[i]) # Lower(last'.name)]_vars

\* A call whose argument is a key of _cache opens nothing
C30_KeysServedFromCache ==
    [][\A n \in LoaderRequests :
           (DictHas(_cache, n) /\ last'.name = n /\ last' # last) => ~last'.opened]_vars

====
